---- MODULE Spec2Model ----
(***************************************************************************)
(* Model of the quiz-document parser of src/Code/ChatGpt/chat.py:          *)
(* normalize_text, is_heading_line, group_paragraphs_into_blocks and       *)
(* parse_block.  Text is a sequence of characters (one-character strings,  *)
(* or a named symbol for a code point that has no ASCII spelling); every   *)
(* regular expression of the source is written down item by item and run   *)
(* by a backtracking matcher that tries the alternatives in the order      *)
(* Python's re module tries them.                                          *)
(***************************************************************************)
EXTENDS Integers, Sequences, FiniteSets, TLC

\* ------------------------------------------------------------------------
\* Characters
\* ------------------------------------------------------------------------

\* A string literal as a sequence of one-character strings.
\* a function with domain 1..n as a sequence value
AsSeq(f) == <<>> \o f

Chars(str) == AsSeq([i \in 1..Len(str) |-> SubSeq(str, i, i)])

ZWSP == "<U+200B>"
ZWNJ == "<U+200C>"
ZWJ == "<U+200D>"
COMBINING_ACUTE == "<U+0301>"
EM_DASH == "<U+2014>"
EN_DASH == "<U+2013>"

LowerSeq == Chars("abcdefghijklmnopqrstuvwxyz")
UpperSeq == Chars("ABCDEFGHIJKLMNOPQRSTUVWXYZ")
LowerAlpha == {LowerSeq[i] : i \in 1..26}
UpperAlpha == {UpperSeq[i] : i \in 1..26}
DigitCh == {"0", "1", "2", "3", "4", "5", "6", "7", "8", "9"}
PunctCh == {".", ",", "?", "!", ":", ";", "-", "_", "*", "+", "=", "/",
            "(", ")", "[", "]"}
\* the letters that Unicode has a precomposed acute form of
AcuteBaseSeq == Chars("acegiklmnoprsuwyzACEGIKLMNOPRSUWYZ")
AcuteBase == {AcuteBaseSeq[i] : i \in 1..Len(AcuteBaseSeq)}
\* the precomposed code point of letter c with an acute accent
WithAcute(c) == "<" \o c \o "+U+0301>"
Precomposed == {WithAcute(c) : c \in AcuteBase}
E_ACUTE == WithAcute("e")
\* \s of the re module and the characters str.strip() removes
WhiteSpace == {" ", "\t", "\n", "\r"}
ZeroWidth == {ZWSP, ZWNJ, ZWJ}
\* \w of the re module
WordCh == LowerAlpha \cup UpperAlpha \cup DigitCh \cup {"_"} \cup Precomposed
Alphabet == LowerAlpha \cup UpperAlpha \cup DigitCh \cup PunctCh \cup WhiteSpace
              \cup ZeroWidth \cup Precomposed \cup {COMBINING_ACUTE, EM_DASH, EN_DASH}

\* str.lower() on one character
UpperIndex(c) == CHOOSE i \in 1..26 : UpperSeq[i] = c
AcuteBaseOf(c) == CHOOSE x \in AcuteBase : WithAcute(x) = c
LowerOf(c) == IF c \in UpperAlpha THEN LowerSeq[UpperIndex(c)]
              ELSE IF c \in Precomposed /\ AcuteBaseOf(c) \in UpperAlpha
              THEN WithAcute(LowerSeq[UpperIndex(AcuteBaseOf(c))])
              ELSE c
LowerMap == [c \in Alphabet |-> LowerOf(c)]
LowerCh(c) == LowerMap[c]
\* str.lower()
Lower(s) == AsSeq([i \in 1..Len(s) |-> LowerCh(s[i])])

Min(a, b) == IF a < b THEN a ELSE b

\* s[a:b] of Python, 0-based half-open
Slice(s, a, b) == SubSeq(s, a + 1, b)

RECURSIVE LStripLen(_, _)
LStripLen(s, i) == IF i < Len(s) /\ s[i + 1] \in WhiteSpace THEN LStripLen(s, i + 1) ELSE i
RECURSIVE RStripLen(_, _)
RStripLen(s, j) == IF j > 0 /\ s[j] \in WhiteSpace THEN RStripLen(s, j - 1) ELSE j
\* str.strip()
StripFrom(s, a) == IF a = Len(s) THEN <<>> ELSE Slice(s, a, RStripLen(s, Len(s)))
Strip(s) == StripFrom(s, LStripLen(s, 0))

\* " ".join(list)
RECURSIVE JoinSpace(_)
JoinSpace(l) == IF Len(l) = 0 THEN <<>>
                ELSE IF Len(l) = 1 THEN l[1]
                ELSE l[1] \o <<" ">> \o JoinSpace(Tail(l))

\* needle in hay (substring test)
Contains(hay, needle) ==
    \E i \in 0..(Len(hay) - Len(needle)) : Slice(hay, i, i + Len(needle)) = needle

\* the least element of a set of offsets, or none when the set is empty
LeastOr(S, none) == IF S = {} THEN none ELSE CHOOSE j \in S : \A j2 \in S : j <= j2
\* the greatest element of a set of indices, or none when the set is empty
GreatestOr(S, none) == IF S = {} THEN none ELSE CHOOSE j \in S : \A j2 \in S : j2 <= j

\* ------------------------------------------------------------------------
\* Regular expressions: a pattern is a sequence of items
\* ------------------------------------------------------------------------
\* Cls(S, q): one character class with quantifier q in
\*            "1", "?", "*", "+" (greedy) or "+?" (lazy)
Cls(S, q) == [t |-> "cls", set |-> S, q |-> q, alts |-> <<>>]
\* Lit(<<w1, w2, ..>>): (w1|w2|..) under (?i), alternatives tried in order
Lit(ws) == [t |-> "lit", set |-> {}, q |-> "1", alts |-> ws]
\* LitCS(<<w1, ..>>): the same, case-sensitive
LitCS(ws) == [t |-> "litcs", set |-> {}, q |-> "1", alts |-> ws]
WordB == [t |-> "wb", set |-> {}, q |-> "1", alts |-> <<>>]
Bol == [t |-> "bol", set |-> {}, q |-> "1", alts |-> <<>>]
Eol == [t |-> "eol", set |-> {}, q |-> "1", alts |-> <<>>]
EndZ == [t |-> "endz", set |-> {}, q |-> "1", alts |-> <<>>]
\* LookAhead(<<p1, p2, ..>>): (?=(?:p1|p2|..))
LookAhead(ps) == [t |-> "la", set |-> {}, q |-> "1", alts |-> ps]

NoMatch == [ok |-> FALSE, ends |-> <<>>]

\* number of consecutive characters of S in s from offset pos
Run(s, pos, S) ==
    LeastOr({j \in pos..(Len(s) - 1) : s[j + 1] \notin S}, Len(s)) - pos

LitAt(s, pos, w, ci) ==
    /\ pos + Len(w) <= Len(s)
    /\ \A i \in 1..Len(w) :
         IF ci THEN LowerCh(s[pos + i]) = LowerCh(w[i]) ELSE s[pos + i] = w[i]

IsWordAt(s, i) == i >= 1 /\ i <= Len(s) /\ s[i] \in WordCh
\* \b at offset pos
AtWordBoundary(s, pos) == IsWordAt(s, pos) # IsWordAt(s, pos + 1)

\* the match r of the items after an item that ended at offset e
EndsAt(e, r) == IF r.ok THEN [ok |-> TRUE, ends |-> <<e>> \o r.ends] ELSE NoMatch

RECURSIVE MatchFrom(_, _, _, _), MatchItem(_, _, _, _, _), MatchCls(_, _, _, _, _, _),
          ZeroWidthHolds(_, _, _), TryGreedy(_, _, _, _, _, _), GreedyStep(_, _, _, _, _, _, _),
          TryLazy(_, _, _, _, _, _), LazyStep(_, _, _, _, _, _, _), TryAlt(_, _, _, _, _),
          AltAt(_, _, _, _, _, _),
          AltStep(_, _, _, _, _, _, _)
\* The items k.. of pattern re matched at offset pos of s: the first success
\* in the matcher's order; ends[j] is the offset after item k+j-1.
MatchFrom(re, s, k, pos) ==
    IF k > Len(re) THEN [ok |-> TRUE, ends |-> <<>>] ELSE MatchItem(re, s, k, pos, re[k])

MatchItem(re, s, k, pos, it) ==
    CASE it.t = "cls" -> MatchCls(re, s, k, pos, it.q, Run(s, pos, it.set))
      [] it.t \in {"lit", "litcs"} -> TryAlt(re, s, k, pos, 1)
      [] OTHER -> IF ZeroWidthHolds(it, s, pos)
                  THEN EndsAt(pos, MatchFrom(re, s, k + 1, pos)) ELSE NoMatch

\* a character class with its quantifier, mx characters of the class ahead
MatchCls(re, s, k, pos, q, mx) ==
    CASE q = "1" -> TryGreedy(re, s, k, pos, Min(mx, 1), 1)
      [] q = "?" -> TryGreedy(re, s, k, pos, Min(mx, 1), 0)
      [] q = "*" -> TryGreedy(re, s, k, pos, mx, 0)
      [] q = "+" -> TryGreedy(re, s, k, pos, mx, 1)
      [] q = "+?" -> TryLazy(re, s, k, pos, 1, mx)

\* the zero-width items: \b, ^, $, \Z and (?=...)
ZeroWidthHolds(it, s, pos) ==
    CASE it.t = "wb" -> AtWordBoundary(s, pos)
      [] it.t = "bol" -> pos = 0
      [] it.t = "eol" -> pos = Len(s) \/ (pos = Len(s) - 1 /\ s[Len(s)] = "\n")
      [] it.t = "endz" -> pos = Len(s)
      [] it.t = "la" -> \E j \in 1..Len(it.alts) : MatchFrom(it.alts[j], s, 1, pos).ok

\* greedy: n characters, then n-1, .. down to lo
TryGreedy(re, s, k, pos, n, lo) ==
    IF n < lo THEN NoMatch
    ELSE GreedyStep(re, s, k, pos, n, lo, MatchFrom(re, s, k + 1, pos + n))
GreedyStep(re, s, k, pos, n, lo, r) ==
    IF r.ok THEN EndsAt(pos + n, r) ELSE TryGreedy(re, s, k, pos, n - 1, lo)

\* lazy: n characters, then n+1, .. up to hi
TryLazy(re, s, k, pos, n, hi) ==
    IF n > hi THEN NoMatch
    ELSE LazyStep(re, s, k, pos, n, hi, MatchFrom(re, s, k + 1, pos + n))
LazyStep(re, s, k, pos, n, hi, r) ==
    IF r.ok THEN EndsAt(pos + n, r) ELSE TryLazy(re, s, k, pos, n + 1, hi)

\* alternation of literals, leftmost alternative first
TryAlt(re, s, k, pos, j) ==
    IF j > Len(re[k].alts) THEN NoMatch ELSE AltAt(re, s, k, pos, j, re[k].alts[j])
AltAt(re, s, k, pos, j, w) ==
    AltStep(re, s, k, pos, j, w,
            IF LitAt(s, pos, w, re[k].t = "lit")
            THEN MatchFrom(re, s, k + 1, pos + Len(w)) ELSE NoMatch)
AltStep(re, s, k, pos, j, w, r) ==
    IF r.ok THEN EndsAt(pos + Len(w), r) ELSE TryAlt(re, s, k, pos, j + 1)

NoHit == [ok |-> FALSE, start |-> 0, ends |-> <<>>]
\* a match found at offset q
HitAt(q, r) == IF r.ok THEN [ok |-> TRUE, start |-> q, ends |-> r.ends] ELSE NoHit
\* re.match(re, s)
ReMatch(re, s) == HitAt(0, MatchFrom(re, s, 1, 0))

\* re.search(re, s) scanning from offset p: the leftmost offset that matches
SearchAt(re, s, q0) == IF q0 < 0 THEN NoHit ELSE HitAt(q0, MatchFrom(re, s, 1, q0))
ReSearchFrom(re, s, p) ==
    SearchAt(re, s, LeastOr({q \in p..Len(s) : MatchFrom(re, s, 1, q).ok}, -1))
ReSearch(re, s) == ReSearchFrom(re, s, 0)

\* the text of the capture group that is item k of the pattern
Group(s, m, k) == Slice(s, IF k = 1 THEN m.start ELSE m.ends[k - 1], m.ends[k])
MatchEnd(m) == IF Len(m.ends) = 0 THEN m.start ELSE m.ends[Len(m.ends)]

RECURSIVE ReSubFrom(_, _, _, _), SubStep(_, _, _, _, _)
\* re.sub(re, repl, s): leftmost non-overlapping matches (patterns that
\* cannot match the empty string)
ReSubFrom(re, s, repl, p) == SubStep(re, s, repl, p, ReSearchFrom(re, s, p))
SubStep(re, s, repl, p, m) ==
    IF ~m.ok THEN Slice(s, p, Len(s))
    ELSE Slice(s, p, m.start) \o repl \o ReSubFrom(re, s, repl, MatchEnd(m))
ReSub(re, repl, s) == ReSubFrom(re, s, repl, 0)

RECURSIVE ReSplitFrom(_, _, _), SplitStep(_, _, _, _)
\* re.split(re, s) for a pattern without groups that cannot match empty
ReSplitFrom(re, s, p) == SplitStep(re, s, p, ReSearchFrom(re, s, p))
SplitStep(re, s, p, m) ==
    IF ~m.ok THEN <<Slice(s, p, Len(s))>>
    ELSE <<Slice(s, p, m.start)>> \o ReSplitFrom(re, s, MatchEnd(m))
ReSplit(re, s) == ReSplitFrom(re, s, 0)

\* ------------------------------------------------------------------------
\* normalize_text
\* ------------------------------------------------------------------------
\* unicodedata.normalize("NFC", s): a letter directly followed by the
\* combining acute accent becomes the precomposed letter when Unicode has
\* one; nothing else in the alphabet composes or decomposes
IsKeptByNFC(c) == c # ""
ComposeNFC(s) ==
    SelectSeq(AsSeq([j \in 1..Len(s) |->
                  IF s[j] \in AcuteBase /\ j < Len(s) /\ s[j + 1] = COMBINING_ACUTE
                  THEN WithAcute(s[j])
                  ELSE IF s[j] = COMBINING_ACUTE /\ j > 1 /\ s[j - 1] \in AcuteBase
                  THEN ""
                  ELSE s[j]]),
              IsKeptByNFC)

IsNotZeroWidth(c) == c \notin ZeroWidth
\* s.replace(U+200B, '').replace(U+200C, '').replace(U+200D, '')
RemoveZeroWidth(s) == SelectSeq(s, IsNotZeroWidth)

\* r'\r\n|\r'
CRLF_RE == <<LitCS(<< <<"\r", "\n">>, <<"\r">> >>)>>
\* r'\n\s+\n'
BLANK_LINES_RE == <<Cls({"\n"}, "1"), Cls(WhiteSpace, "+"), Cls({"\n"}, "1")>>
\* r'[ \t]+'
HSPACE_RE == <<Cls({" ", "\t"}, "+")>>

\* lines 61-66, innermost first
normalize_text(s) ==
    Strip(ReSub(HSPACE_RE, <<" ">>,
                ReSub(BLANK_LINES_RE, <<"\n", "\n">>,
                      ReSub(CRLF_RE, <<"\n">>, RemoveZeroWidth(ComposeNFC(s))))))

\* ------------------------------------------------------------------------
\* Separators and headings
\* ------------------------------------------------------------------------
\* r'^[\-<em dash><en dash>\*\_]{1,}\s*$'
SEPARATOR_RE == <<Bol, Cls({"-", EM_DASH, EN_DASH, "*", "_"}, "+"), Cls(WhiteSpace, "*"), Eol>>

HEADING_PATTERNS == <<
    <<Bol, LitCS(<<Chars("unique questions")>>)>>,
    <<Bol, LitCS(<<Chars("unique questions with answers")>>)>>,
    <<Bol, LitCS(<<Chars("paper")>>), Cls(WhiteSpace, "*"), Cls(DigitCh, "+")>>,
    <<Bol, LitCS(<<Chars("selected questions")>>)>>,
    <<Bol, LitCS(<<Chars("selected questions with answers")>>)>>,
    <<Bol, LitCS(<<Chars("question")>>), Cls({"s"}, "?"), LitCS(<<Chars(" on")>>)>>
>>
\* r'^paper\s*\d+\b'
PAPER_RE == <<Bol, LitCS(<<Chars("paper")>>), Cls(WhiteSpace, "*"), Cls(DigitCh, "+"), WordB>>

\* lines 87-94 on ln = line.strip().lower()
IsHeadingText(ln) ==
    \/ \E i \in 1..Len(HEADING_PATTERNS) : ReMatch(HEADING_PATTERNS[i], ln).ok
    \/ Contains(ln, Chars("unique questions"))
    \/ Contains(ln, Chars("answers and explanations"))
    \/ ReMatch(PAPER_RE, ln).ok
is_heading_line(line) == IF Len(line) = 0 THEN FALSE ELSE IsHeadingText(Lower(Strip(line)))

\* the test of line 102 on t = p.strip(): blank, or a separator line
IsBlankOrSeparator(t) == t = <<>> \/ ReMatch(SEPARATOR_RE, t).ok
IsBreakBlankOnly(p) == Strip(p) = <<>>
IsBreak(p) == IsBlankOrSeparator(Strip(p))

\* ------------------------------------------------------------------------
\* parse_block
\* ------------------------------------------------------------------------
LetterAD == {"A", "B", "C", "D", "a", "b", "c", "d"}
OpenBr == {"(", "["}
CloseBr == {")", "]", "."}
ColonDash == {":", "-"}

\* r'(?i)\b(Explanation|Solution|Explanatory)\b\s*[:\-]?\s*(.*)$' with re.S
EXPLANATION_RE == <<WordB,
                    Lit(<<Chars("Explanation"), Chars("Solution"), Chars("Explanatory")>>),
                    WordB, Cls(WhiteSpace, "*"), Cls(ColonDash, "?"), Cls(WhiteSpace, "*"),
                    Cls(Alphabet, "*"), Eol>>
\* r'(?i)\b(Answer|Ans|Correct|Key|Correct option)\b\s*[:\-]?\s*([^\n\r]*)'
ANSWER_RE == <<WordB,
               Lit(<<Chars("Answer"), Chars("Ans"), Chars("Correct"), Chars("Key"),
                     Chars("Correct option")>>),
               WordB, Cls(WhiteSpace, "*"), Cls(ColonDash, "?"), Cls(WhiteSpace, "*"),
               Cls(Alphabet \ {"\n", "\r"}, "*")>>
\* r'([A-Da-d])'
LETTER_RE == <<Cls(LetterAD, "1")>>
\* r'(?i)\bOptions?\b\s*[:\-]?\s*(.*)$' with re.S
OPTIONS_RE == <<WordB, Lit(<<Chars("Option")>>), Cls({"s", "S"}, "?"),
                WordB, Cls(WhiteSpace, "*"), Cls(ColonDash, "?"), Cls(WhiteSpace, "*"),
                Cls(Alphabet, "*"), Eol>>
\* r'(?=(?:\(|\[)?[A-Da-d][\)\].]?\s+)'
FIRST_LABEL_RE == <<LookAhead(<< <<Cls(OpenBr, "?"), Cls(LetterAD, "1"), Cls(CloseBr, "?"),
                                   Cls(WhiteSpace, "+")>> >>)>>
\* r'^\s*[\(\[]?([A-Da-d])[\)\].]?\s*(.+)'
PARA_OPTION_RE == <<Bol, Cls(WhiteSpace, "*"), Cls(OpenBr, "?"), Cls(LetterAD, "1"),
                    Cls(CloseBr, "?"), Cls(WhiteSpace, "*"), Cls(Alphabet \ {"\n"}, "+")>>
\* r'[\(\[]?([A-Da-d])[\)\].]?\s*' r'([^(\(\[]+?)' r'(?=(?:[\(\[]?[A-Da-d][\)\].]?|\Z))'
OPT_PAIR_RE == <<Cls(OpenBr, "?"), Cls(LetterAD, "1"), Cls(CloseBr, "?"), Cls(WhiteSpace, "*"),
                 Cls(Alphabet \ OpenBr, "+?"),
                 LookAhead(<< <<Cls(OpenBr, "?"), Cls(LetterAD, "1"), Cls(CloseBr, "?")>>,
                              <<EndZ>> >>)>>
\* r'[\s]*[A-Da-d][\)\.\]]\s*'
INLINE_LABEL_RE == <<Cls(WhiteSpace, "*"), Cls(LetterAD, "1"), Cls(CloseBr, "1"),
                     Cls(WhiteSpace, "*")>>

None == [kind |-> "None"]

IsNonBlank(p) == Len(p) > 0 /\ Strip(p) # <<>>

StripFirstHeadingOnly(paras) ==
    IF Len(paras) > 0 /\ is_heading_line(paras[1]) THEN Tail(paras) ELSE paras
RECURSIVE StripLeadingHeadings(_)
\* while paras and is_heading_line(paras[0]): paras.pop(0)
StripLeadingHeadings(paras) ==
    IF Len(paras) > 0 /\ is_heading_line(paras[1])
    THEN StripLeadingHeadings(Tail(paras)) ELSE paras

\* lines 134-136 and 142-144: the text of group k of the match m and raw cut
\* before the match, or raw as it is when there is no match
CutAt(raw, m, k) ==
    IF m.ok THEN [ok |-> TRUE, text |-> Strip(Group(raw, m, k)),
                  raw |-> Strip(Slice(raw, 0, m.start))]
    ELSE [ok |-> FALSE, text |-> <<>>, raw |-> raw]
\* lines 132-136
ExtractExplanation(raw) == CutAt(raw, ReSearch(EXPLANATION_RE, raw), 7)
\* lines 139-144
ExtractAnswer(raw) == CutAt(raw, ReSearch(ANSWER_RE, raw), 7)

\* lines 165-167: the (label, text) of a paragraph that begins with a label
OptionOfPara(p, m) ==
    IF m.ok THEN << <<LowerCh(Group(p, m, 4)[1]), Strip(Group(p, m, 7))>> >> ELSE <<>>
RECURSIVE SeparateOpts(_)
\* lines 163-167 over the paragraphs ps
SeparateOpts(ps) ==
    IF Len(ps) = 0 THEN <<>>
    ELSE OptionOfPara(ps[1], ReMatch(PARA_OPTION_RE, ps[1])) \o SeparateOpts(Tail(ps))

\* f"({lab}) {txt}"
LabelledText(pair) == <<"(", pair[1], ")", " ">> \o pair[2]
JoinLabelled(pairs) == JoinSpace(AsSeq([i \in 1..Len(pairs) |-> LabelledText(pairs[i])]))

\* lines 162-172
SplitByParagraphs(raw, paras, separate_opts) ==
    IF Len(separate_opts) > 0
    THEN [strategy |-> "paragraph_scan", question_text |-> Strip(paras[1]),
          options_part |-> JoinLabelled(separate_opts)]
    ELSE [strategy |-> "none", question_text |-> raw, options_part |-> <<>>]
\* lines 158-160: sp is the first place the look-ahead of line 158 holds
SplitByFirstLabel(raw, paras, sp) ==
    IF sp.ok
    THEN [strategy |-> "first_label_split", question_text |-> Strip(Slice(raw, 0, sp.start)),
          options_part |-> Strip(Slice(raw, sp.start, Len(raw)))]
    ELSE SplitByParagraphs(raw, paras, SeparateOpts(Tail(paras)))
\* the split of line 158 tried although the options label of line 152 is there
SplitIgnoringOptionsToken(raw, paras, m_options_token) ==
    SplitByFirstLabel(raw, paras, ReSearch(FIRST_LABEL_RE, raw))
\* lines 152-155
SplitByOptionsToken(raw, paras, m_options_token) ==
    IF m_options_token.ok
    THEN [strategy |-> "options_label",
          question_text |-> Strip(Slice(raw, 0, m_options_token.start)),
          options_part |-> Strip(Group(raw, m_options_token, 8))]
    ELSE SplitByFirstLabel(raw, paras, ReSearch(FIRST_LABEL_RE, raw))
\* lines 150-172: question_text and options_part
SplitQuestionOptions(raw, paras) ==
    SplitByOptionsToken(raw, paras, ReSearch(OPTIONS_RE, raw))

RECURSIVE FindOptPairs(_, _), PairStep(_, _)
\* re.findall(OPT_PAIR_RE, options_part): <<label, text>> of each match
FindOptPairs(s, p) == PairStep(s, ReSearchFrom(OPT_PAIR_RE, s, p))
PairStep(s, m) ==
    IF ~m.ok THEN <<>>
    ELSE << <<Group(s, m, 2)[1], Group(s, m, 5)>> >> \o FindOptPairs(s, MatchEnd(m))

\* label_map.get(label, ""): a later pair with the same label replaces an earlier one
TextOfPair(pairs, i) == IF i = 0 THEN <<>> ELSE Strip(pairs[i][2])
LabelMapGet(pairs, label) ==
    TextOfPair(pairs, GreatestOr({i \in 1..Len(pairs) : LowerCh(pairs[i][1]) = label}, 0))

LABELS == <<"a", "b", "c", "d">>

\* lines 182-186
OptsFromPairs(pairs) == AsSeq([i \in 1..4 |-> normalize_text(LabelMapGet(pairs, LABELS[i]))])

IsNonEmpty(x) == Len(x) > 0
\* [""] * (n - len(opts))
Blanks(n) == AsSeq([i \in 1..n |-> <<>>])
\* lines 191-198 on inline = the non-empty normalized pieces
FirstFourInline(inline) ==
    IF Len(inline) > 0
    THEN IF Len(inline) >= 4 THEN SubSeq(inline, 1, 4) ELSE inline \o Blanks(4 - Len(inline))
    ELSE Blanks(4)
NormalizedNonEmpty(pieces) ==
    SelectSeq(AsSeq([i \in 1..Len(pieces) |-> normalize_text(pieces[i])]), IsNonEmpty)
\* lines 189-198
OptsFromInlineSplit(options_part) ==
    FirstFourInline(NormalizedNonEmpty(ReSplit(INLINE_LABEL_RE, options_part)))

\* lines 201-202 and 203-204 for a length of n
PadTo(opts, n) == IF Len(opts) < n THEN opts \o Blanks(n - Len(opts)) ELSE opts
CutTo(opts, n) == IF Len(opts) > n THEN SubSeq(opts, 1, n) ELSE opts
\* lines 200-204
EnsureFourOff(opts) == CutTo(PadTo(opts, 3), 3)
EnsureFour(opts) == CutTo(PadTo(opts, 4), 4)

\* lines 175-204
OptsOf(options_part, opt_pairs) ==
    EnsureFour(IF Len(opt_pairs) > 0 THEN OptsFromPairs(opt_pairs)
               ELSE OptsFromInlineSplit(options_part))

\* the first character the letter search matched ("" when none)
LetterFound(raw_answer_text, m_letter) ==
    IF m_letter.ok THEN Group(raw_answer_text, m_letter, 1)[1] ELSE ""
LowerLetter(c) == IF c = "" THEN "" ELSE LowerCh(c)
\* lines 145-147: the first A-D/a-d of the answer text, lower-cased ("" when none)
AnswerLetterKeepCase(raw_answer_text) ==
    LetterFound(raw_answer_text, ReSearch(LETTER_RE, raw_answer_text))
AnswerLetterOf(raw_answer_text) ==
    LowerLetter(LetterFound(raw_answer_text, ReSearch(LETTER_RE, raw_answer_text)))

\* lines 208-213: the first non-empty option contained in the answer text
LabelAt(i) == IF i = 0 THEN "" ELSE LABELS[i]
ContainmentNever(opts, raw_answer_text) == ""
ContainmentLast(opts, raw_answer_text) ==
    LabelAt(GreatestOr({i \in 1..Len(opts) :
                           Len(opts[i]) > 0 /\ Contains(Lower(raw_answer_text), Lower(opts[i]))},
                       0))
ContainmentLetter(opts, raw_answer_text) ==
    LabelAt(LeastOr({i \in 1..Len(opts) :
                        Len(opts[i]) > 0 /\ Contains(Lower(raw_answer_text), Lower(opts[i]))},
                    0))
\* lines 208-213 with the options consulted before the letter of step 2
ResolveLetterContainmentFirst(letter, raw_answer_text, opts) ==
    IF Len(raw_answer_text) > 0 /\ ContainmentLetter(opts, raw_answer_text) # ""
    THEN ContainmentLetter(opts, raw_answer_text) ELSE letter
\* lines 208-218: the letter before the default of line 217 ("" when unknown)
ResolveLetter(letter, raw_answer_text, opts) ==
    IF letter = "" /\ Len(raw_answer_text) > 0
    THEN ContainmentLetter(opts, raw_answer_text) ELSE letter
\* lines 215-218
LetterOrA(letter) == IF letter = "" THEN "a" ELSE letter

\* line 238
IsNotAQuestionNever(question, options) == FALSE
IsNotAQuestionInverted(question, options) ==
    Len(question) = 0 /\ \A i \in 1..Len(options) : options[i] # <<>>
IsNotAQuestion(question, options) ==
    Len(question) = 0 /\ \A i \in 1..Len(options) : options[i] = <<>>

\* lines 220-235
Parsed(idx, sq, opts, letter, ex, an) ==
    [kind |-> "Question",
     question |-> normalize_text(sq.question_text),
     options |-> opts,
     answer |-> LetterOrA(letter),
     assumed |-> letter = "",
     explanation |-> normalize_text(ex.text),
     raw_block |-> normalize_text(an.raw),
     debug |-> [block_idx |-> idx,
                raw_preview |-> Slice(an.raw, 0, Min(220, Len(an.raw))),
                found_options |-> opts,
                has_answer_text |-> an.ok,
                raw_answer_text |-> an.text,
                final_answer |-> LetterOrA(letter),
                assumed |-> letter = ""]]

\* lines 238-240
ReturnOf(parsed) == IF IsNotAQuestion(parsed.question, parsed.options) THEN None ELSE parsed

\* lines 120-121 and 125-126
EarlyReturn(paras) ==
    [paras |-> paras, strategy |-> "none", used_pairs |-> FALSE,
     has_explanation |-> FALSE, has_answer |-> FALSE, letter_explicit |-> FALSE,
     raw |-> <<>>, question_text |-> <<>>, options_part |-> <<>>,
     reached_end |-> FALSE, parsed |-> None, result |-> None]

\* Every value parse_block computes on the way, and its return value (result):
\* each step below hands what it computed to the next one.
TraceOf(paras, ex, an, letter0, sq, opt_pairs, parsed) ==
    [paras |-> paras, strategy |-> sq.strategy, used_pairs |-> Len(opt_pairs) > 0,
     has_explanation |-> ex.ok, has_answer |-> an.ok, letter_explicit |-> letter0 # "",
     raw |-> an.raw, question_text |-> sq.question_text, options_part |-> sq.options_part,
     reached_end |-> TRUE, parsed |-> parsed, result |-> ReturnOf(parsed)]
\* lines 206-235
WithOpts(paras, idx, ex, an, letter0, sq, opt_pairs, opts) ==
    TraceOf(paras, ex, an, letter0, sq, opt_pairs,
            Parsed(idx, sq, opts, ResolveLetter(letter0, an.text, opts), ex, an))
\* lines 181-204
WithPairs(paras, idx, ex, an, letter0, sq, opt_pairs) ==
    WithOpts(paras, idx, ex, an, letter0, sq, opt_pairs, OptsOf(sq.options_part, opt_pairs))
\* lines 174-180
WithSplit(paras, idx, ex, an, letter0, sq) ==
    WithPairs(paras, idx, ex, an, letter0, sq, FindOptPairs(sq.options_part, 0))
\* lines 145-172
WithAnswer(paras, idx, ex, an) ==
    WithSplit(paras, idx, ex, an, IF an.ok THEN AnswerLetterOf(an.text) ELSE "",
              SplitQuestionOptions(an.raw, paras))
\* lines 138-144
WithExplanation(paras, idx, ex) == WithAnswer(paras, idx, ex, ExtractAnswer(ex.raw))
\* lines 120-136
WithParas(paras, idx) ==
    IF Len(paras) = 0 THEN EarlyReturn(paras)
    ELSE WithExplanation(paras, idx, ExtractExplanation(Strip(JoinSpace(paras))))
\* lines 119-240
ParseBlockTrace(block, idx) == WithParas(StripLeadingHeadings(SelectSeq(block, IsNonBlank)), idx)

parse_block(block, idx) == ParseBlockTrace(block, idx).result

\* ------------------------------------------------------------------------
\* State
\* ------------------------------------------------------------------------
VARIABLES
    paragraphs,    \* the paragraph texts of the document (line 248)
    cursor,        \* number of paragraphs the loop of line 99 has consumed
    curr,          \* group_paragraphs_into_blocks: the open block
    blocks,        \* group_paragraphs_into_blocks: the closed blocks
    block_idx,     \* number of blocks the loop of line 252 has parsed
    questions,     \* parse_docx_to_questions: the list being returned
    pc,            \* "group", "parse" or "done"
    last,          \* the latest parse_block call: its block and what it computed
    scenario,      \* the fields a scenario block was written from
    text,          \* normalize_text: the argument
    normalized,    \* normalize_text(text)
    renormalized,  \* normalize_text(normalize_text(text))
    line,          \* is_heading_line: the argument
    heading,       \* is_heading_line(line), "unknown" before the call
    debug_log,     \* parse_docx_to_questions: the log write and what the call returned
    out_doc,       \* write_output_docx: the questions given and the tables written
    ui,            \* chat.py QuizFormatterMain: fields, dialogs and the file written
    perpl,         \* perpl.py parse_docx_questions: the block and the question built
    gemini,        \* gemini.py: the main window, the parser thread and its signals
    grok           \* Grok.py convert: the lines, the open block and the questions

parserVars == <<paragraphs, cursor, curr, blocks, block_idx, questions, pc, last, scenario,
                text, normalized, renormalized, line, heading>>
apps == <<out_doc, ui, perpl, gemini, grok>>
vars == <<parserVars, debug_log, apps>>

\* the values of the variables of a program that is not running
NoLog == [write_debug_log |-> FALSE, file |-> "untouched", caught |-> "none",
          raised |-> FALSE, returned |-> <<>>]
NoDoc == [state |-> "idle"]
NoUi == [state |-> "idle"]
NoPerpl == [state |-> "idle"]
NoGemini == [state |-> "idle"]
NoGrok == [state |-> "idle"]
IdleApps ==
    /\ out_doc = NoDoc
    /\ ui = NoUi
    /\ perpl = NoPerpl
    /\ gemini = NoGemini
    /\ grok = NoGrok

NoCall == [called |-> FALSE, block |-> <<>>, idx |-> 0, trace |-> ParseBlockTrace(<<>>, 0)]
NoScenario == [used |-> FALSE, layout |-> "none", question |-> <<>>, options |-> <<>>,
               answer_text |-> <<>>, has_explanation |-> FALSE, explanation |-> <<>>]

\* ------------------------------------------------------------------------
\* group_paragraphs_into_blocks and the loop of parse_docx_to_questions
\* ------------------------------------------------------------------------
\* lines 103-105 without the "if curr" guard
CloseBlockUnguarded(bs, cu) == <<Append(bs, cu), <<>> >>
\* lines 103-105: <<blocks, curr>> after a blank or separator paragraph
CloseBlock(bs, cu) == IF Len(cu) > 0 THEN <<Append(bs, cu), <<>> >> ELSE <<bs, cu>>

\* one iteration of the loop of line 99
GroupStep ==
    /\ pc = "group"
    /\ cursor < Len(paragraphs)
    /\ LET para == paragraphs[cursor + 1] IN
       IF IsBreak(para)
       THEN /\ blocks' = CloseBlock(blocks, curr)[1]
            /\ curr' = CloseBlock(blocks, curr)[2]
       ELSE /\ curr' = Append(curr, para)
            /\ blocks' = blocks
    /\ cursor' = cursor + 1
    /\ UNCHANGED <<paragraphs, block_idx, questions, pc, last, scenario,
                   text, normalized, renormalized, line, heading, debug_log, apps>>

\* lines 108-110: flush the open block and return
GroupReturn ==
    /\ pc = "group"
    /\ cursor = Len(paragraphs)
    /\ blocks' = CloseBlock(blocks, curr)[1]
    /\ curr' = CloseBlock(blocks, curr)[2]
    /\ pc' = "parse"
    /\ UNCHANGED <<paragraphs, cursor, block_idx, questions, last, scenario,
                   text, normalized, renormalized, line, heading, debug_log, apps>>

\* the loop of lines 252-256 left at the first discarded block
ParseStepStopOnDiscard ==
    /\ pc = "parse"
    /\ block_idx < Len(blocks)
    /\ last' = [called |-> TRUE, block |-> blocks[block_idx + 1], idx |-> block_idx,
                trace |-> ParseBlockTrace(blocks[block_idx + 1], block_idx)]
    /\ questions' = IF last'.trace.result # None
                    THEN Append(questions, last'.trace.result) ELSE questions
    /\ block_idx' = IF last'.trace.result # None THEN block_idx + 1 ELSE Len(blocks)
    /\ UNCHANGED <<paragraphs, cursor, curr, blocks, pc, scenario,
                   text, normalized, renormalized, line, heading, debug_log, apps>>
\* one iteration of the loop of lines 252-256
ParseStep ==
    /\ pc = "parse"
    /\ block_idx < Len(blocks)
    /\ last' = [called |-> TRUE, block |-> blocks[block_idx + 1], idx |-> block_idx,
                trace |-> ParseBlockTrace(blocks[block_idx + 1], block_idx)]
    /\ questions' = IF last'.trace.result # None
                    THEN Append(questions, last'.trace.result) ELSE questions
    /\ block_idx' = block_idx + 1
    /\ UNCHANGED <<paragraphs, cursor, curr, blocks, pc, scenario,
                   text, normalized, renormalized, line, heading, debug_log, apps>>

\* lines 259-261: what the with-block leaves of debug_log.jsonl and the
\* exception it ends with. open() fails with OSError; json is not imported
\* (line 5), so json.dumps of the first entry ends the block with NameError
\* after the file was opened (and emptied) for writing
LogFileAfter(open_ok, debug_entries) ==
    IF ~open_ok THEN "untouched"
    ELSE IF Len(debug_entries) = 0 THEN "written_empty" ELSE "opened_not_written"
LogError(open_ok, debug_entries) ==
    IF ~open_ok THEN "OSError"
    ELSE IF Len(debug_entries) = 0 THEN "none" ELSE "NameError"
\* lines 257-265 without the try/except: the error leaves the function
LogWriteUncaught(write_debug_log, open_ok, qs) ==
    IF ~write_debug_log
    THEN [write_debug_log |-> FALSE, file |-> "untouched", caught |-> "none",
          raised |-> FALSE, returned |-> qs]
    ELSE [write_debug_log |-> TRUE, file |-> LogFileAfter(open_ok, qs),
          caught |-> "none", raised |-> LogError(open_ok, qs) # "none",
          returned |-> IF LogError(open_ok, qs) # "none" THEN <<>> ELSE qs]
\* lines 257-265: the log write inside try/except Exception, then return questions
LogWrite(write_debug_log, open_ok, qs) ==
    IF ~write_debug_log
    THEN [write_debug_log |-> FALSE, file |-> "untouched", caught |-> "none",
          raised |-> FALSE, returned |-> qs]
    ELSE [write_debug_log |-> TRUE, file |-> LogFileAfter(open_ok, qs),
          caught |-> LogError(open_ok, qs), raised |-> FALSE, returned |-> qs]

\* lines 257-265: after the last block
ParseReturn ==
    /\ pc = "parse"
    /\ block_idx = Len(blocks)
    /\ pc' = "done"
    /\ \E write_debug_log \in BOOLEAN, open_ok \in BOOLEAN :
          debug_log' = LogWrite(write_debug_log, open_ok, questions)
    /\ UNCHANGED <<paragraphs, cursor, curr, blocks, block_idx, questions, last, scenario,
                   text, normalized, renormalized, line, heading, apps>>

\* ------------------------------------------------------------------------
\* Spec: a whole document through grouping and parsing
\* ------------------------------------------------------------------------
MaxParagraphs == 3

P_BLANK == <<>>
P_SPACES == Chars(" \t")
P_SEPARATOR == Chars("---")
P_Q1 == Chars("Q1 text")
P_Q2 == Chars("Q2 text")
P_ANSWER_ONLY == Chars("Answer: b")
DocParagraphs == {P_BLANK, P_SPACES, P_SEPARATOR, P_Q1, P_Q2, P_ANSWER_ONLY}
\* longer documents: Scenario 6 of the specification, and two content
\* paragraphs followed by a separator and a third
ScenarioDocuments == {<<P_Q1, P_SEPARATOR, P_BLANK, P_Q2>>, <<P_Q2, P_Q1, P_SEPARATOR, P_Q2>>}

Init ==
    /\ \/ \E d \in UNION {[1..n -> DocParagraphs] : n \in 0..MaxParagraphs} :
             paragraphs = AsSeq(d)
       \/ paragraphs \in ScenarioDocuments
    /\ cursor = 0
    /\ curr = <<>>
    /\ blocks = <<>>
    /\ block_idx = 0
    /\ questions = <<>>
    /\ pc = "group"
    /\ last = NoCall
    /\ scenario = NoScenario
    /\ text = <<>>
    /\ normalized = <<>>
    /\ renormalized = <<>>
    /\ line = <<>>
    /\ heading = "unknown"
    /\ debug_log = NoLog
    /\ IdleApps

Next == GroupStep \/ GroupReturn \/ ParseStep \/ ParseReturn

Spec == Init /\ [][Next]_vars

\* ------------------------------------------------------------------------
\* SpecBlock: parse_block called on one block of arbitrary paragraphs
\* ------------------------------------------------------------------------
MaxBlockLen == 2

B_SPACE == Chars(" ")
B_PAPER == Chars("Paper 1")
B_UNIQUE == Chars("Unique Questions")
B_WHAT == Chars("What is x?")
B_OPT_A == Chars("(a) 1")
B_OPT_B == Chars("(b)2")
B_OPTS == Chars("Q? Options: (a) 3 (b) 4")
B_ANSWER_TEXT == Chars("Answer: 4")
B_ANSWER_LETTER == Chars("Ans: (B) Explanation: E.")
B_NAIVE == Chars("Q Options: 1 a)(2")
B_ANSWER_BOTH == Chars("Answer: 4 3")
B_NAIVE4 == Chars("Q Options: 0 a)(1 b)(2 c)(3 d)(4")
BlockParagraphs == {B_SPACE, B_PAPER, B_UNIQUE, B_WHAT, B_OPT_A, B_OPT_B, B_OPTS,
                    B_ANSWER_TEXT, B_ANSWER_LETTER, B_NAIVE, B_ANSWER_BOTH, B_NAIVE4}

InitBlock ==
    /\ paragraphs = <<>>
    /\ cursor = 0
    /\ curr = <<>>
    /\ \E b \in UNION {[1..n -> BlockParagraphs] : n \in 0..MaxBlockLen} :
          blocks = <<AsSeq(b)>>
    /\ block_idx = 0
    /\ questions = <<>>
    /\ pc = "parse"
    /\ last = NoCall
    /\ scenario = NoScenario
    /\ text = <<>>
    /\ normalized = <<>>
    /\ renormalized = <<>>
    /\ line = <<>>
    /\ heading = "unknown"
    /\ debug_log = NoLog
    /\ IdleApps

NextBlock == ParseStep \/ ParseReturn

SpecBlock == InitBlock /\ [][NextBlock]_vars

\* ------------------------------------------------------------------------
\* SpecScenario: parse_block called on a block written from a question, four
\* option texts, an answer text and an optional explanation, either as one
\* paragraph ("<q> Options: (a) A (b) B (c) C (d) D Answer: <ans>
\* Explanation: <e>") or with one paragraph per part
\* ------------------------------------------------------------------------
S_WHAT == Chars("1. What is 2+2?")
S_CAPITAL == Chars("Capital of UK?")
ScenarioQuestions == {S_WHAT, S_CAPITAL}

S_DIGITS == <<Chars("3"), Chars("4"), Chars("5"), Chars("6")>>
S_CITIES == <<Chars("Paris"), Chars("London"), Chars("Rome"), Chars("Berlin")>>
S_PORTS == <<Chars("Oslo"), Chars("Lima"), Chars("Rome"), Chars("Kyiv")>>
ScenarioOptions == {S_DIGITS, S_CITIES, S_PORTS}

S_LONDON == Chars("London")
S_FOUR == Chars("4")
LetterAnswer(x) == <<"(", x, ")">>
ScenarioAnswers == {LetterAnswer(x) : x \in {"a", "b", "c", "d"}} \cup {S_LONDON, S_FOUR}

S_BASIC == Chars("Basic addition.")

OptionPart(x, opt) == LetterAnswer(x) \o <<" ">> \o opt
AnswerPart(sc) == Chars("Answer: ") \o sc.answer_text
ExplanationPart(sc) == Chars("Explanation: ") \o sc.explanation

\* the block parse_block is given for the fields sc
ScenarioBlock(sc) ==
    LET parts == <<sc.question,
                   OptionPart("a", sc.options[1]), OptionPart("b", sc.options[2]),
                   OptionPart("c", sc.options[3]), OptionPart("d", sc.options[4]),
                   AnswerPart(sc)>>
                 \o (IF sc.has_explanation THEN <<ExplanationPart(sc)>> ELSE <<>>)
    IN IF sc.layout = "single"
       THEN << sc.question \o Chars(" Options: ")
               \o JoinSpace(SubSeq(parts, 2, Len(parts))) >>
       ELSE parts

InitScenario ==
    /\ \E lay \in {"single", "per_paragraph"}, q \in ScenarioQuestions,
          opts \in ScenarioOptions, ans \in ScenarioAnswers, he \in BOOLEAN :
          scenario = [used |-> TRUE, layout |-> lay, question |-> q, options |-> opts,
                      answer_text |-> ans, has_explanation |-> he,
                      explanation |-> IF he THEN S_BASIC ELSE <<>>]
    /\ blocks = <<ScenarioBlock(scenario)>>
    /\ paragraphs = <<>>
    /\ cursor = 0
    /\ curr = <<>>
    /\ block_idx = 0
    /\ questions = <<>>
    /\ pc = "parse"
    /\ last = NoCall
    /\ text = <<>>
    /\ normalized = <<>>
    /\ renormalized = <<>>
    /\ line = <<>>
    /\ heading = "unknown"
    /\ debug_log = NoLog
    /\ IdleApps

NextScenario == ParseStep \/ ParseReturn

SpecScenario == InitScenario /\ [][NextScenario]_vars

\* ------------------------------------------------------------------------
\* SpecNorm: normalize_text applied to a text, then to its own result
\* ------------------------------------------------------------------------
MaxTextLen == 3

NormAlphabet == {"e", COMBINING_ACUTE, ZWJ, " ", "\t", "\n", "\r"}

InitNorm ==
    /\ \E t \in UNION {[1..n -> NormAlphabet] : n \in 0..MaxTextLen} : text = AsSeq(t)
    /\ normalized = <<>>
    /\ renormalized = <<>>
    /\ line = <<>>
    /\ heading = "unknown"
    /\ debug_log = NoLog
    /\ IdleApps
    /\ pc = "normalize"
    /\ paragraphs = <<>>
    /\ cursor = 0
    /\ curr = <<>>
    /\ blocks = <<>>
    /\ block_idx = 0
    /\ questions = <<>>
    /\ last = NoCall
    /\ scenario = NoScenario

\* normalize_text(text)
Normalize ==
    /\ pc = "normalize"
    /\ normalized' = normalize_text(text)
    /\ pc' = "renormalize"
    /\ UNCHANGED <<paragraphs, cursor, curr, blocks, block_idx, questions, last, scenario,
                   text, renormalized, line, heading, debug_log, apps>>

\* normalize_text(normalize_text(text))
Renormalize ==
    /\ pc = "renormalize"
    /\ renormalized' = normalize_text(normalized)
    /\ pc' = "done"
    /\ UNCHANGED <<paragraphs, cursor, curr, blocks, block_idx, questions, last, scenario,
                   text, normalized, line, heading, debug_log, apps>>

NextNorm == Normalize \/ Renormalize

SpecNorm == InitNorm /\ [][NextNorm]_vars

\* ------------------------------------------------------------------------
\* SpecHeading: is_heading_line called on one line
\* ------------------------------------------------------------------------
HeadingPhrases == {Chars("unique questions"), Chars("Unique Questions with Answers"),
                   Chars("PAPER 1"), Chars("paper12"), Chars("Selected Questions"),
                   Chars("questions on"), Chars("Question On"),
                   Chars("index"), Chars("Index"), Chars("CONTENTS"), Chars("contents"),
                   Chars("paper"), Chars("What is x?"), Chars("Answers and Explanations")}
HeadingLeads == {<<>>, Chars(" "), Chars("\t")}
HeadingTails == {<<>>, Chars(" "), Chars(" 2024"), Chars(": Algebra")}

InitHeading ==
    /\ \E lead \in HeadingLeads, phrase \in HeadingPhrases, tail \in HeadingTails :
          line = lead \o phrase \o tail
    /\ heading = "unknown"
    /\ debug_log = NoLog
    /\ IdleApps
    /\ pc = "heading"
    /\ paragraphs = <<>>
    /\ cursor = 0
    /\ curr = <<>>
    /\ blocks = <<>>
    /\ block_idx = 0
    /\ questions = <<>>
    /\ last = NoCall
    /\ scenario = NoScenario
    /\ text = <<>>
    /\ normalized = <<>>
    /\ renormalized = <<>>

\* is_heading_line(line)
IsHeadingCall ==
    /\ pc = "heading"
    /\ heading' = is_heading_line(line)
    /\ pc' = "done"
    /\ UNCHANGED <<paragraphs, cursor, curr, blocks, block_idx, questions, last, scenario,
                   text, normalized, renormalized, line, debug_log, apps>>

NextHeading == IsHeadingCall

SpecHeading == InitHeading /\ [][NextHeading]_vars

\* ------------------------------------------------------------------------
\* SpecWrite: write_output_docx on question dicts of any origin
\* ------------------------------------------------------------------------
MaxQuestions == 2

\* q.get('answer', 'a') on a dict without the key
MISSING == "<missing>"
\* str.lower() on the answer values of the inputs
AnswerLower ==
    [s \in {"a", "b", "c", "d", "e", "", "ab", "A", "B", "C", "D", "E"} |->
        CASE s = "A" -> "a" [] s = "B" -> "b" [] s = "C" -> "c" [] s = "D" -> "d"
          [] s = "E" -> "e" [] OTHER -> s]
\* letter = q.get('answer','a').lower()
LetterOf(q) == IF q.answer = MISSING THEN "a" ELSE AnswerLower[q.answer]
\* idx_map.get(letter) without the default: no index for an unknown letter
CorrectIdxNoDefault(letter) ==
    IF \E i \in 1..4 : LABELS[i] = letter
    THEN (CHOOSE i \in 1..4 : LABELS[i] = letter) - 1 ELSE 4
\* correct_idx = idx_map.get(letter, 0)
CorrectIdx(letter) ==
    IF \E i \in 1..4 : LABELS[i] = letter
    THEN (CHOOSE i \in 1..4 : LABELS[i] = letter) - 1 ELSE 0
\* rows 2-5 of the table: row 2 + i is element i + 1
OptionRows(opts, correct_idx) ==
    AsSeq([k \in 1..4 |-> [row |-> k + 1, label |-> "Option", text |-> opts[k],
                           mark |-> IF k - 1 = correct_idx THEN "correct" ELSE "incorrect"]])
\* lines 284-316: the table of one question
TableOf(q) ==
    [question |-> q.question, type |-> "multiple_choice",
     option_rows |-> OptionRows(q.options, CorrectIdx(LetterOf(q))),
     solution |-> q.explanation, marks |-> <<"1", "0">>]

WriteAnswers == {"a", "b", "c", "d", "e", "", "ab", "A", "B", "C", "D", "E", MISSING}
WriteOptionLists == {<<"3", "4", "5", "6">>, <<"x", "y", "", "">>}
WriteQuestions ==
    {[question |-> "Q", options |-> o, answer |-> a, explanation |-> "E"] :
        o \in WriteOptionLists, a \in WriteAnswers}

InitWrite ==
    /\ \E qs \in UNION {[1..n -> WriteQuestions] : n \in 0..MaxQuestions} :
          out_doc = [state |-> "writing", questions |-> AsSeq(qs), tables |-> <<>>,
                     saved |-> FALSE]
    /\ paragraphs = <<>>
    /\ cursor = 0
    /\ curr = <<>>
    /\ blocks = <<>>
    /\ block_idx = 0
    /\ questions = <<>>
    /\ pc = "write"
    /\ last = NoCall
    /\ scenario = NoScenario
    /\ text = <<>>
    /\ normalized = <<>>
    /\ renormalized = <<>>
    /\ line = <<>>
    /\ heading = "unknown"
    /\ debug_log = NoLog
    /\ ui = NoUi
    /\ perpl = NoPerpl
    /\ gemini = NoGemini
    /\ grok = NoGrok

\* one iteration of the loop of line 283
AddTable ==
    /\ out_doc.state = "writing"
    /\ Len(out_doc.tables) < Len(out_doc.questions)
    /\ out_doc' = [out_doc EXCEPT
                     !.tables = Append(@, TableOf(out_doc.questions[Len(out_doc.tables) + 1]))]
    /\ UNCHANGED <<parserVars, debug_log, ui, perpl, gemini, grok>>

\* line 320: doc.save(output_path)
SaveDoc ==
    /\ out_doc.state = "writing"
    /\ Len(out_doc.tables) = Len(out_doc.questions)
    /\ out_doc' = [out_doc EXCEPT !.state = "saved", !.saved = TRUE]
    /\ UNCHANGED <<parserVars, debug_log, ui, perpl, gemini, grok>>

NextWrite == AddTable \/ SaveDoc

SpecWrite == InitWrite /\ [][NextWrite]_vars

\* ------------------------------------------------------------------------
\* SpecConvert: chat.py QuizFormatterMain, its input choice, convert and reset
\* ------------------------------------------------------------------------
\* the window after construction (line 599: the success label is hidden)
NewWindow ==
    [current_input_path |-> "none", success_visible |-> FALSE, op |-> "start",
     parse |-> "not_run", questions |-> <<>>, prompt |-> FALSE, reply |-> "none",
     write |-> "not_attempted", dialog |-> "none", written |-> <<>>]

\* lines 735-740: some question is flagged (assumed answer or an empty option)
IsFlagged(q) == q.assumed \/ \E k \in 1..Len(q.options) : Strip(q.options[k]) = <<>>
HasWarnings(qs) == \E n \in 1..Len(qs) : IsFlagged(qs[n])

\* lines 747-754: the write and what follows it
WriteStep(u, qs, write_ok) ==
    IF write_ok
    THEN [u EXCEPT !.write = "ok", !.written = qs, !.success_visible = TRUE]
    ELSE [u EXCEPT !.write = "failed", !.dialog = "Save error"]
\* lines 741-746 with the reply of the user ignored
AfterWarningsIgnoreReply(u, qs, reply, write_ok) ==
    IF HasWarnings(qs)
    THEN WriteStep([u EXCEPT !.prompt = TRUE, !.reply = reply], qs, write_ok)
    ELSE WriteStep(u, qs, write_ok)
\* lines 741-754: the warnings prompt, then the write unless the reply is No
AfterWarnings(u, qs, reply, write_ok) ==
    IF HasWarnings(qs)
    THEN IF reply = "No"
         THEN [u EXCEPT !.prompt = TRUE, !.reply = reply]
         ELSE WriteStep([u EXCEPT !.prompt = TRUE, !.reply = reply], qs, write_ok)
    ELSE WriteStep(u, qs, write_ok)
\* lines 729-733 without the return after the message box
AfterParseNoReturn(u, parse_ok, qs, reply, write_ok) ==
    IF ~parse_ok
    THEN WriteStep([u EXCEPT !.parse = "failed", !.dialog = "Parse error"], <<>>, write_ok)
    ELSE AfterWarnings([u EXCEPT !.parse = "ok", !.questions = qs], qs, reply, write_ok)
\* lines 729-754: the parse inside try/except, then the rest of convert
AfterParse(u, parse_ok, qs, reply, write_ok) ==
    IF ~parse_ok
    THEN [u EXCEPT !.parse = "failed", !.dialog = "Parse error"]
    ELSE AfterWarnings([u EXCEPT !.parse = "ok", !.questions = qs], qs, reply, write_ok)
\* line 716 and the fields of the convert that starts
StartConvert(u) ==
    [u EXCEPT !.success_visible = FALSE, !.op = "convert", !.parse = "not_run",
              !.questions = <<>>, !.prompt = FALSE, !.reply = "none",
              !.write = "not_attempted", !.dialog = "none"]
\* lines 714-754
ConvertFrom(u, parse_ok, qs, reply, write_ok) ==
    IF u.current_input_path # "valid"
    THEN [StartConvert(u) EXCEPT !.dialog = "No input"]
    ELSE AfterParse(StartConvert(u), parse_ok, qs, reply, write_ok)

\* question lists the parser can return
CQ_CLEAN == [assumed |-> FALSE,
             options |-> <<Chars("3"), Chars("4"), Chars("5"), Chars("6")>>]
CQ_ASSUMED == [assumed |-> TRUE,
               options |-> <<Chars("3"), Chars("4"), Chars("5"), Chars("6")>>]
CQ_PADDED == [assumed |-> FALSE, options |-> <<Chars("x"), Chars("y"), <<>>, <<>> >>]
ConvertQuestionLists == {<<>>, <<CQ_CLEAN>>, <<CQ_ASSUMED>>, <<CQ_PADDED>>,
                         <<CQ_CLEAN, CQ_CLEAN>>, <<CQ_CLEAN, CQ_PADDED>>}

InitConvert ==
    /\ ui = NewWindow
    /\ paragraphs = <<>>
    /\ cursor = 0
    /\ curr = <<>>
    /\ blocks = <<>>
    /\ block_idx = 0
    /\ questions = <<>>
    /\ pc = "ui"
    /\ last = NoCall
    /\ scenario = NoScenario
    /\ text = <<>>
    /\ normalized = <<>>
    /\ renormalized = <<>>
    /\ line = <<>>
    /\ heading = "unknown"
    /\ debug_log = NoLog
    /\ out_doc = NoDoc
    /\ perpl = NoPerpl
    /\ gemini = NoGemini
    /\ grok = NoGrok

\* browse_file, lines 689-699: a file is chosen; it may be gone when convert runs
BrowseFile ==
    /\ \E path \in {"valid", "missing"} :
          ui' = [ui EXCEPT !.current_input_path = path, !.op = "browse"]
    /\ UNCHANGED <<parserVars, debug_log, out_doc, perpl, gemini, grok>>

\* reset_app, lines 644-655
ResetApp ==
    /\ ui' = [ui EXCEPT !.current_input_path = "none", !.success_visible = FALSE,
                        !.op = "reset"]
    /\ UNCHANGED <<parserVars, debug_log, out_doc, perpl, gemini, grok>>

\* convert, lines 714-754: the parse, the reply and the write are inputs
Convert ==
    /\ \E parse_ok \in BOOLEAN, qs \in ConvertQuestionLists, reply \in {"Yes", "No"},
          write_ok \in BOOLEAN :
          ui' = ConvertFrom(ui, parse_ok, qs, reply, write_ok)
    /\ UNCHANGED <<parserVars, debug_log, out_doc, perpl, gemini, grok>>

NextConvert == BrowseFile \/ ResetApp \/ Convert

SpecConvert == InitConvert /\ [][NextConvert]_vars

\* ------------------------------------------------------------------------
\* SpecPerpl: perpl.py parse_docx_questions on the lines of one block, then
\* create_question_table on the question built
\* ------------------------------------------------------------------------
MaxOptionLines == 5

\* r"Options?:" with re.IGNORECASE
PERPL_OPTIONS_RE == <<Lit(<<Chars("Option")>>), Cls({"s", "S"}, "?"), Lit(<<Chars(":")>>)>>
\* r'\(?([a-d])\)?[\.\)]?\s*([^(\[]+?)(?=\s*\(?[a-d]\)?[\.\)]|$)' with re.I
PERPL_INLINE_RE ==
    <<Cls({"("}, "?"), Cls(LetterAD, "1"), Cls({")"}, "?"), Cls({".", ")"}, "?"),
      Cls(WhiteSpace, "*"), Cls(Alphabet \ OpenBr, "+?"),
      LookAhead(<< <<Cls(WhiteSpace, "*"), Cls({"("}, "?"), Cls(LetterAD, "1"),
                     Cls({")"}, "?"), Cls({".", ")"}, "1")>>,
                   <<Eol>> >>)>>
\* r'^(Answer|Ans|Correct):\s*' with re.I
PERPL_ANSWER_RE == <<Bol, Lit(<<Chars("Answer"), Chars("Ans"), Chars("Correct")>>),
                     Lit(<<Chars(":")>>), Cls(WhiteSpace, "*")>>
\* r'^(Explanation|Solution):\s*' with re.I
PERPL_SOLUTION_RE == <<Bol, Lit(<<Chars("Explanation"), Chars("Solution")>>),
                       Lit(<<Chars(":")>>), Cls(WhiteSpace, "*")>>
\* r'\(?([a-d])\)?[\.\)]\s*(.*)' with re.I
PERPL_OPTION_RE == <<Cls({"("}, "?"), Cls(LetterAD, "1"), Cls({")"}, "?"), Cls({".", ")"}, "1"),
                     Cls(WhiteSpace, "*"), Cls(Alphabet \ {"\n"}, "*")>>
\* r'^[\(\[]?([a-d])[)\]]?'
PERPL_LETTER_RE == <<Bol, Cls(OpenBr, "?"), Cls({"a", "b", "c", "d"}, "1"), Cls({")", "]"}, "?")>>

RECURSIVE PerplFindInline(_, _), PerplInlineStep(_, _)
\* lines 91-93: the stripped texts of re.findall(PERPL_INLINE_RE, line)
PerplFindInline(s, p) == PerplInlineStep(s, ReSearchFrom(PERPL_INLINE_RE, s, p))
PerplInlineStep(s, m) ==
    IF ~m.ok THEN <<>>
    ELSE <<Strip(Group(s, m, 6))>> \o PerplFindInline(s, MatchEnd(m))

\* re.sub(prefix, '', line).strip() for the prefix match m
AfterPrefix(s, m) == Strip(Slice(s, MatchEnd(m), Len(s)))

\* lines 88-93
OnOptionsHeader(u, opts_inline) ==
    [u EXCEPT !.stage = "options",
              !.options = IF Len(opts_inline) > 0 THEN opts_inline ELSE @]
\* lines 110-118: a line in the options stage; m is the match of line 112
OnOptionLine(u, s, m) ==
    IF m.ok THEN [u EXCEPT !.options = Append(@, Strip(Group(s, m, 6)))]
    ELSE IF Len(u.options) < 4 THEN [u EXCEPT !.options = Append(@, s)] ELSE u
\* lines 105-120
OnTextLine(u, s) ==
    IF u.stage = "question"
    THEN [u EXCEPT !.question_text = IF @ = <<>> THEN s ELSE @ \o <<" ">> \o s]
    ELSE IF u.stage = "options" THEN OnOptionLine(u, s, ReMatch(PERPL_OPTION_RE, s))
    ELSE IF u.stage = "solution" THEN [u EXCEPT !.solution = @ \o Strip(<<" ">> \o s)]
    ELSE u
\* lines 88-120: one line of the block
OnLine(u, s) ==
    IF ReMatch(PERPL_OPTIONS_RE, s).ok THEN OnOptionsHeader(u, PerplFindInline(s, 0))
    ELSE IF ReMatch(PERPL_ANSWER_RE, s).ok
    THEN [u EXCEPT !.stage = "answer", !.answer = AfterPrefix(s, ReMatch(PERPL_ANSWER_RE, s))]
    ELSE IF ReMatch(PERPL_SOLUTION_RE, s).ok
    THEN [u EXCEPT !.stage = "solution",
                   !.solution = AfterPrefix(s, ReMatch(PERPL_SOLUTION_RE, s))]
    ELSE OnTextLine(u, s)

\* lines 54-60 on the lower-cased answer text: the first option that contains it, else 0
AnswerInOptions(options, ans_text) ==
    LeastOr({k \in 1..Len(options) : Contains(Lower(options[k]), ans_text)}, 1) - 1
\* lines 51-60: m is the match of line 51
LetterOrText(options, ans_text, m) ==
    IF m.ok THEN (CHOOSE k \in 1..4 : LABELS[k] = Group(ans_text, m, 3)[1]) - 1
    ELSE AnswerInOptions(options, ans_text)
\* find_answer_index, lines 47-60
find_answer_index(options, ans_text) ==
    LetterOrText(options, Lower(Strip(ans_text)),
                 ReMatch(PERPL_LETTER_RE, Lower(Strip(ans_text))))
\* lines 123-127 and 129-134
BuildQuestion(u, options) ==
    [u EXCEPT !.state = "built", !.options = options,
              !.correct = IF Len(u.answer) > 0 THEN find_answer_index(options, u.answer)
                          ELSE 0]
\* create_question_table lines 30-34: the marks of rows 2-5
PerplMarks(correct) ==
    AsSeq([k \in 1..4 |-> IF k - 1 = correct THEN "correct" ELSE "incorrect"])

\* line 76: the block is skipped as a title block
IsTitleBlock(lines) ==
    \E k \in 1..Len(lines) :
        \E w \in {Chars("title"), Chars("paper"), Chars("unique questions")} :
            Contains(Lower(lines[k]), w)

\* the lines of the blocks parsed: a question, the options header, labelled
\* option lines and an answer line
DigitSeq == Chars("123456789")
OptionLine(k) == <<LABELS[((k - 1) % 4) + 1], ")", " ", DigitSeq[k]>>
OptionLines(n) == AsSeq([k \in 1..n |-> OptionLine(k)])
PerplQuestions == {Chars("Q?"), Chars("Title?")}
PerplHeaders == {Chars("Options:"), Chars("Options: (a) 1 (b) 2")}
PerplAnswers == {<< >>, <<Chars("Answer: b")>>, <<Chars("Answer: 5")>>,
                 <<Chars("Ans: (d)")>>, <<Chars("Correct: 2"), Chars("Solution: E")>>}

InitPerpl ==
    /\ \E q \in PerplQuestions, h \in PerplHeaders, n \in 0..MaxOptionLines,
          a \in PerplAnswers :
          perpl = [state |-> "block", lines |-> <<q, h>> \o OptionLines(n) \o a,
                   read |-> 0, stage |-> "question", question_text |-> <<>>,
                   options |-> <<>>, answer |-> <<>>, solution |-> <<>>,
                   correct |-> 0, marks |-> <<>>]
    /\ paragraphs = <<>>
    /\ cursor = 0
    /\ curr = <<>>
    /\ blocks = <<>>
    /\ block_idx = 0
    /\ questions = <<>>
    /\ pc = "perpl"
    /\ last = NoCall
    /\ scenario = NoScenario
    /\ text = <<>>
    /\ normalized = <<>>
    /\ renormalized = <<>>
    /\ line = <<>>
    /\ heading = "unknown"
    /\ debug_log = NoLog
    /\ out_doc = NoDoc
    /\ ui = NoUi
    /\ gemini = NoGemini
    /\ grok = NoGrok

\* lines 73-86: the block is skipped or its line loop starts
StartBlock ==
    /\ perpl.state = "block"
    /\ perpl' = [perpl EXCEPT !.state = IF IsTitleBlock(perpl.lines) THEN "skipped"
                                        ELSE "lines"]
    /\ UNCHANGED <<parserVars, debug_log, out_doc, ui, gemini, grok>>

\* one iteration of the loop of line 87
ReadLine ==
    /\ perpl.state = "lines"
    /\ perpl.read < Len(perpl.lines)
    /\ perpl' = [OnLine(perpl, perpl.lines[perpl.read + 1]) EXCEPT !.read = perpl.read + 1]
    /\ UNCHANGED <<parserVars, debug_log, out_doc, ui, gemini, grok>>

\* lines 123-134: pad the options, find the correct index, append the question
AppendQuestion ==
    /\ perpl.state = "lines"
    /\ perpl.read = Len(perpl.lines)
    /\ perpl' = BuildQuestion(perpl, PadTo(perpl.options, 4))
    /\ UNCHANGED <<parserVars, debug_log, out_doc, ui, gemini, grok>>

\* create_question_table on the question built
CreateQuestionTable ==
    /\ perpl.state = "built"
    /\ perpl' = [perpl EXCEPT !.state = "table", !.marks = PerplMarks(perpl.correct)]
    /\ UNCHANGED <<parserVars, debug_log, out_doc, ui, gemini, grok>>

NextPerpl == StartBlock \/ ReadLine \/ AppendQuestion \/ CreateQuestionTable

SpecPerpl == InitPerpl /\ [][NextPerpl]_vars

\* ------------------------------------------------------------------------
\* SpecGemini: gemini.py, the main window (browse_file, save_as, reset_app,
\* convert, on_parsing_finished, on_parsing_error) and the GeminiParser
\* thread (run, stop)
\* ------------------------------------------------------------------------
MaxBlocks == 2

\* what the service answers for one block of the text
BlockKinds == {"blank", "ok", "assumed", "few", "no_options", "empty_json",
               "bad_json", "api_error"}
\* the blocks whose object is appended to self.questions (line 100)
ParsedKinds == {"ok", "assumed", "few"}
BlockLists == UNION {[1..n -> BlockKinds] : n \in 1..MaxBlocks}

\* __init__ of the window (lines 162-170) with no parser thread
GeminiWindow ==
    [state |-> "window", current_input_path |-> "None", output_path |-> "None",
     output_edit |-> "", out_path |-> "None", dialog |-> "none",
     success_visible |-> FALSE, written_to |-> "nothing", handled |-> FALSE,
     thread |-> "none", blocks |-> <<>>, i |-> 0, questions |-> <<>>,
     warnings |-> <<>>, is_running |-> FALSE, emitted |-> <<>>]

\* lines 348-352: the path convert selects
OutPathOf(g) ==
    IF g.output_path # "None" THEN g.output_path
    ELSE IF g.output_edit # "" THEN "parent/" \o g.output_edit
    ELSE "parent/stem_Formatted.docx"

\* lines 354-372: the document is read and the thread is created and started
StartThread(g, doc_ok, bs) ==
    IF ~doc_ok THEN [g EXCEPT !.dialog = "Error"]
    ELSE [g EXCEPT !.state = "parsing", !.thread = "setup", !.blocks = bs,
                   !.i = 0, !.questions = <<>>, !.warnings = <<>>,
                   !.is_running = TRUE, !.emitted = <<>>, !.handled = FALSE]
\* convert, lines 342-372
GeminiConvertFrom(g, doc_ok, bs) ==
    IF g.current_input_path = "None" THEN [g EXCEPT !.dialog = "No input"]
    ELSE StartThread([g EXCEPT !.out_path = OutPathOf(g)], doc_ok, bs)

\* lines 84-105: the warnings one block adds
BlockWarnings(n, kind) ==
    CASE kind = "assumed"    -> <<[block |-> n, text |-> "assumed"]>>
      [] kind = "few"        -> <<[block |-> n, text |-> "fewer than 4"]>>
      [] kind = "no_options" -> <<[block |-> n, text |-> "fewer than 4"],
                                  [block |-> n, text |-> "parsing error"]>>
      [] kind = "empty_json" -> <<[block |-> n, text |-> "failed to parse"]>>
      [] kind = "bad_json"   -> <<[block |-> n, text |-> "parsing error"]>>
      [] kind = "api_error"  -> <<[block |-> n, text |-> "parsing error"]>>
      [] OTHER               -> <<>>
\* line 100: the question one block appends
BlockQuestions(n, kind) ==
    IF kind \in ParsedKinds THEN <<[block |-> n, options |-> 4]>> ELSE <<>>

\* an iteration whose API call raises ends the run through line 109
BlockOutcomeAbort(t, n, kind) ==
    IF kind = "api_error"
    THEN [t EXCEPT !.i = n, !.thread = "error", !.emitted = Append(@, "parsing_error")]
    ELSE [t EXCEPT !.i = n, !.warnings = @ \o BlockWarnings(n, kind),
                   !.questions = @ \o BlockQuestions(n, kind)]
\* lines 70-105: one iteration of the loop over the blocks, for block n
BlockOutcome(t, n, kind) ==
    [t EXCEPT !.i = n, !.warnings = @ \o BlockWarnings(n, kind),
              !.questions = @ \o BlockQuestions(n, kind)]

\* lines 379-398: the signal parsing_finished is handled
FinishedFrom(g, reply, write_ok) ==
    IF Len(g.warnings) > 0 /\ reply = "No"
    THEN [g EXCEPT !.state = "window", !.handled = TRUE, !.dialog = "Export canceled"]
    ELSE IF g.output_path = "None" \/ ~write_ok
    THEN [g EXCEPT !.state = "window", !.handled = TRUE, !.written_to = g.output_path,
                   !.dialog = "Save error"]
    ELSE [g EXCEPT !.state = "window", !.handled = TRUE, !.written_to = g.output_path,
                   !.dialog = "saved", !.success_visible = TRUE]

InitGemini ==
    /\ gemini = GeminiWindow
    /\ paragraphs = <<>>
    /\ cursor = 0
    /\ curr = <<>>
    /\ blocks = <<>>
    /\ block_idx = 0
    /\ questions = <<>>
    /\ pc = "gemini"
    /\ last = NoCall
    /\ scenario = NoScenario
    /\ text = <<>>
    /\ normalized = <<>>
    /\ renormalized = <<>>
    /\ line = <<>>
    /\ heading = "unknown"
    /\ debug_log = NoLog
    /\ out_doc = NoDoc
    /\ ui = NoUi
    /\ perpl = NoPerpl
    /\ grok = NoGrok

\* browse_file, lines 322-330, with a file chosen
GeminiBrowseFile ==
    /\ gemini.state = "window"
    /\ gemini.thread = "none"
    /\ gemini' = [gemini EXCEPT !.current_input_path = "parent/stem.docx",
                                !.output_edit = IF @ = "" THEN "stem_Formatted" ELSE @]
    /\ UNCHANGED <<parserVars, debug_log, out_doc, ui, perpl, grok>>

\* save_as, lines 332-340, with a file chosen
GeminiSaveAs ==
    /\ gemini.state = "window"
    /\ gemini.thread = "none"
    /\ gemini' = [gemini EXCEPT !.output_path = "chosen/out.docx", !.output_edit = "out.docx"]
    /\ UNCHANGED <<parserVars, debug_log, out_doc, ui, perpl, grok>>

\* the user edits the output field (lines 239-250: the field is editable)
GeminiEditOutput ==
    /\ gemini.state = "window"
    /\ gemini.thread = "none"
    /\ \E t \in {"", "typed"} :
          /\ t # gemini.output_edit
          /\ gemini' = [gemini EXCEPT !.output_edit = t]
    /\ UNCHANGED <<parserVars, debug_log, out_doc, ui, perpl, grok>>

\* reset_app, lines 290-296
GeminiResetApp ==
    /\ gemini.state = "window"
    /\ gemini.thread = "none"
    /\ gemini' = [gemini EXCEPT !.current_input_path = "None", !.output_path = "None",
                                !.output_edit = "", !.success_visible = FALSE]
    /\ UNCHANGED <<parserVars, debug_log, out_doc, ui, perpl, grok>>

\* convert, lines 342-372
GeminiConvert ==
    /\ gemini.state = "window"
    /\ gemini.thread = "none"
    /\ \E doc_ok \in BOOLEAN, bs \in BlockLists :
          gemini' = GeminiConvertFrom([gemini EXCEPT !.success_visible = FALSE], doc_ok, bs)
    /\ UNCHANGED <<parserVars, debug_log, out_doc, ui, perpl, grok>>

\* run, lines 36-42: the key is read and the client is configured, or the
\* failure goes to line 109
ParserSetup ==
    /\ gemini.thread = "setup"
    /\ \E setup_ok \in BOOLEAN :
          gemini' = IF setup_ok THEN [gemini EXCEPT !.thread = "loop"]
                    ELSE [gemini EXCEPT !.thread = "error",
                                        !.emitted = Append(@, "parsing_error")]
    /\ UNCHANGED <<parserVars, debug_log, out_doc, ui, perpl, grok>>

\* run, line 71-72: the run was stopped, it returns without a signal
ParserReturn ==
    /\ gemini.thread = "loop"
    /\ gemini.i < Len(gemini.blocks)
    /\ ~gemini.is_running
    /\ gemini' = [gemini EXCEPT !.thread = "returned"]
    /\ UNCHANGED <<parserVars, debug_log, out_doc, ui, perpl, grok>>

\* run, lines 70-105: one iteration of the loop
ParserBlock ==
    /\ gemini.thread = "loop"
    /\ gemini.i < Len(gemini.blocks)
    /\ gemini.is_running
    /\ gemini' = BlockOutcome(gemini, gemini.i + 1, gemini.blocks[gemini.i + 1])
    /\ UNCHANGED <<parserVars, debug_log, out_doc, ui, perpl, grok>>

\* run, line 107
ParserFinished ==
    /\ gemini.thread = "loop"
    /\ gemini.i = Len(gemini.blocks)
    /\ gemini' = [gemini EXCEPT !.thread = "finished",
                                !.emitted = Append(@, "parsing_finished")]
    /\ UNCHANGED <<parserVars, debug_log, out_doc, ui, perpl, grok>>

\* stop, lines 112-113, called when the progress dialog is cancelled
ParserStop ==
    /\ gemini.thread \in {"setup", "loop"}
    /\ gemini.is_running
    /\ gemini' = [gemini EXCEPT !.is_running = FALSE]
    /\ UNCHANGED <<parserVars, debug_log, out_doc, ui, perpl, grok>>

\* on_parsing_finished, lines 378-398
OnParsingFinished ==
    /\ gemini.thread = "finished"
    /\ ~gemini.handled
    /\ \E reply \in {"Yes", "No"}, write_ok \in BOOLEAN :
          gemini' = FinishedFrom(gemini, reply, write_ok)
    /\ UNCHANGED <<parserVars, debug_log, out_doc, ui, perpl, grok>>

\* on_parsing_error, lines 400-403
OnParsingError ==
    /\ gemini.thread = "error"
    /\ ~gemini.handled
    /\ gemini' = [gemini EXCEPT !.state = "window", !.handled = TRUE,
                                !.dialog = "AI Service Error"]
    /\ UNCHANGED <<parserVars, debug_log, out_doc, ui, perpl, grok>>

NextGemini ==
    \/ GeminiBrowseFile
    \/ GeminiSaveAs
    \/ GeminiEditOutput
    \/ GeminiResetApp
    \/ GeminiConvert
    \/ ParserSetup
    \/ ParserReturn
    \/ ParserBlock
    \/ ParserFinished
    \/ ParserStop
    \/ OnParsingFinished
    \/ OnParsingError

SpecGemini == InitGemini /\ [][NextGemini]_vars

\* ------------------------------------------------------------------------
\* SpecGrok: Grok.py, the grouping loop of convert and process_block
\* ------------------------------------------------------------------------
\* r'Options:\s*(.*)' with re.DOTALL | re.IGNORECASE
GROK_OPTIONS_RE == <<Lit(<<Chars("Options:")>>), Cls(WhiteSpace, "*"), Cls(Alphabet, "*")>>
\* r'^\d+\.\s*\*\*(.*)\*\*'
GROK_BOLD_QUESTION_RE ==
    <<Bol, Cls(DigitCh, "+"), Cls({"."}, "1"), Cls(WhiteSpace, "*"), LitCS(<<Chars("**")>>),
      Cls(Alphabet \ {"\n"}, "*"), LitCS(<<Chars("**")>>)>>
\* r'^\d+\.\s*(.*)'
GROK_QUESTION_RE ==
    <<Bol, Cls(DigitCh, "+"), Cls({"."}, "1"), Cls(WhiteSpace, "*"), Cls(Alphabet \ {"\n"}, "*")>>
\* r'\(([a-d])\)\s*(.+?)(?=\s*\([a-d]\)|$)' with re.DOTALL | re.IGNORECASE
GROK_OPTION_RE ==
    <<Cls({"("}, "1"), Cls(LetterAD, "1"), Cls({")"}, "1"), Cls(WhiteSpace, "*"),
      Cls(Alphabet, "+?"),
      LookAhead(<< <<Cls(WhiteSpace, "*"), Cls({"("}, "1"), Cls(LetterAD, "1"), Cls({")"}, "1")>>,
                   <<Eol>> >>)>>
\* r'\*\*Answer:\*\*\s*\(([a-d])\)\s*(.*)' with re.IGNORECASE
GROK_BOLD_ANSWER_RE ==
    <<Lit(<<Chars("**Answer:**")>>), Cls(WhiteSpace, "*"), Cls({"("}, "1"), Cls(LetterAD, "1"),
      Cls({")"}, "1"), Cls(WhiteSpace, "*"), Cls(Alphabet \ {"\n"}, "*")>>
\* r'Answer:\s*\(([a-d])\)\s*(.*)' with re.IGNORECASE
GROK_ANSWER_RE ==
    <<Lit(<<Chars("Answer:")>>), Cls(WhiteSpace, "*"), Cls({"("}, "1"), Cls(LetterAD, "1"),
      Cls({")"}, "1"), Cls(WhiteSpace, "*"), Cls(Alphabet \ {"\n"}, "*")>>
\* r'\*\*Explanation:\*\*\s*' and r'Explanation:\s*' with re.IGNORECASE
GROK_BOLD_EXPLANATION_RE == <<Lit(<<Chars("**Explanation:**")>>), Cls(WhiteSpace, "*")>>
GROK_EXPLANATION_RE == <<Lit(<<Chars("Explanation:")>>), Cls(WhiteSpace, "*")>>
\* r'^\d+\.'
GROK_NUMBERED_RE == <<Bol, Cls(DigitCh, "+"), Cls({"."}, "1")>>
\* r'^[\u002d\u2013\u2014\u2015]+$' (U+2015 is not in the alphabet of the documents)
GROK_SEPARATOR_RE == <<Bol, Cls({"-", EN_DASH, EM_DASH}, "+"), Eol>>
\* 'Options:' as the argument of str.split
GROK_OPTIONS_TOKEN == <<LitCS(<<Chars("Options:")>>)>>

RECURSIVE JoinNewline(_)
\* '\n'.join(list)
JoinNewline(l) == IF Len(l) = 0 THEN <<>>
                  ELSE IF Len(l) = 1 THEN l[1]
                  ELSE l[1] \o <<"\n">> \o JoinNewline(Tail(l))
\* str.replace('\n', ' ')
NewlinesToSpaces(s) == AsSeq([k \in 1..Len(s) |-> IF s[k] = "\n" THEN " " ELSE s[k]])

RECURSIVE GrokFindOptions(_, _), GrokOptionStep(_, _)
\* line 105: re.findall, the (letter, text) pairs
GrokFindOptions(s, p) == GrokOptionStep(s, ReSearchFrom(GROK_OPTION_RE, s, p))
GrokOptionStep(s, m) ==
    IF ~m.ok THEN <<>>
    ELSE <<[letter |-> LowerCh(Group(s, m, 2)[1]), text |-> Group(s, m, 5)]>>
         \o GrokFindOptions(s, MatchEnd(m))
\* lines 106-110: the last text found for a letter, cleaned, or ''
OptionFor(pairs, k) ==
    IF k = 0 THEN <<>> ELSE Strip(NewlinesToSpaces(Strip(pairs[k].text)))
PlaceOptions(pairs) ==
    AsSeq([n \in 1..4 |->
        OptionFor(pairs, GreatestOr({k \in 1..Len(pairs) : pairs[k].letter = LABELS[n]}, 0))])

\* lines 94-102
GrokQuestionFrom(question_part, bold, plain) ==
    IF bold.ok THEN [ok |-> TRUE, text |-> Strip(Group(question_part, bold, 6))]
    ELSE IF plain.ok THEN [ok |-> TRUE, text |-> Strip(Group(question_part, plain, 5))]
    ELSE [ok |-> FALSE, text |-> <<>>]
\* lines 120-125
GrokAnswerFrom(ans_line, bold, plain) ==
    IF bold.ok THEN [ok |-> TRUE, letter |-> LowerCh(Group(ans_line, bold, 4)[1])]
    ELSE IF plain.ok THEN [ok |-> TRUE, letter |-> LowerCh(Group(ans_line, plain, 4)[1])]
    ELSE [ok |-> FALSE, letter |-> ""]
IsNonBlankLine(l) == Strip(l) # <<>>
StripLine(ls) == AsSeq([k \in 1..Len(ls) |-> Strip(ls[k])])
\* lines 128-132
GrokExplanation(exp_lines) ==
    Strip(ReSub(GROK_EXPLANATION_RE, <<>>,
                ReSub(GROK_BOLD_EXPLANATION_RE, <<>>,
                      JoinSpace(StripLine(SelectSeq(exp_lines, IsNonBlankLine))))))

\* lines 115-139
GrokWithAnswer(block_lines, question, options, j, a) ==
    IF ~a.ok THEN None
    ELSE [kind |-> "question", question |-> question, options |-> options,
          ans_letter |-> a.letter,
          explanation |-> GrokExplanation(SubSeq(block_lines, j + 1, Len(block_lines)))]
GrokWithAnsLine(block_lines, question, options, j) ==
    IF j = 0 THEN None
    ELSE GrokWithAnswer(block_lines, question, options, j,
                        GrokAnswerFrom(block_lines[j],
                                       ReSearch(GROK_BOLD_ANSWER_RE, block_lines[j]),
                                       ReSearch(GROK_ANSWER_RE, block_lines[j])))
\* lines 104-117
GrokWithOptions(block_lines, question, options) ==
    IF \A n \in 1..4 : options[n] = <<>> THEN None
    ELSE GrokWithAnsLine(block_lines, question, options,
             LeastOr({j \in 1..Len(block_lines) : Contains(block_lines[j], Chars("Answer:"))}, 0))
\* lines 93-105
GrokWithQuestion(block_lines, q, opts_part) ==
    IF ~q.ok THEN None
    ELSE GrokWithOptions(block_lines, q.text, PlaceOptions(GrokFindOptions(opts_part, 0)))
GrokWithParts(block_lines, question_part, opts_part) ==
    GrokWithQuestion(block_lines,
                     GrokQuestionFrom(question_part,
                                      ReMatch(GROK_BOLD_QUESTION_RE, question_part),
                                      ReMatch(GROK_QUESTION_RE, question_part)),
                     opts_part)
\* lines 83-91: the options are looked for in a later line
GrokLaterOptions(block_lines, j) ==
    IF j = 0 THEN None
    ELSE GrokWithParts(block_lines, Strip(block_lines[1]),
                       Strip(ReSplit(GROK_OPTIONS_TOKEN, block_lines[j])[2]))
\* lines 78-91
GrokWithOptsMatch(block_lines, opts_match) ==
    IF opts_match.ok
    THEN GrokWithParts(block_lines, Strip(Slice(block_lines[1], 0, opts_match.start)),
                       Strip(Group(block_lines[1], opts_match, 3)))
    ELSE GrokLaterOptions(block_lines,
             LeastOr({j \in 2..Len(block_lines) : Contains(block_lines[j], Chars("Options:"))}, 0))
\* process_block, lines 72-139
process_block(block_lines) ==
    IF \/ ~Contains(JoinNewline(block_lines), Chars("Answer:"))
       \/ ~Contains(JoinNewline(block_lines), Chars("Options:"))
    THEN None
    ELSE GrokWithOptsMatch(block_lines, ReSearch(GROK_OPTIONS_RE, block_lines[1]))

\* lines 170-172, 177-179, 187-189: questions.append(q) if q
AppendIfQuestion(qs, q) == IF q = None THEN qs ELSE Append(qs, q)
\* lines 169-173: a separator line
GrokOnSeparator(g) ==
    [g EXCEPT !.current_block = <<>>,
              !.questions = IF g.current_block # <<>>
                               /\ ReMatch(GROK_NUMBERED_RE, g.current_block[1]).ok
                            THEN AppendIfQuestion(@, process_block(g.current_block))
                            ELSE @]
\* lines 175-185: a numbered line opens a block, another line is appended to
\* the last element of the block with a space, a line before any block is skipped
GrokOnText(g, ln) ==
    IF ReMatch(GROK_NUMBERED_RE, Strip(ln)).ok
    THEN [g EXCEPT !.current_block = <<ln>>,
                   !.questions = IF g.current_block # <<>>
                                 THEN AppendIfQuestion(@, process_block(g.current_block))
                                 ELSE @]
    ELSE IF g.current_block # <<>>
    THEN [g EXCEPT !.current_block[Len(g.current_block)] = @ \o <<" ">> \o ln]
    ELSE g
\* lines 166-185: one line of the document
GrokOnLine(g, ln) ==
    IF ReMatch(GROK_SEPARATOR_RE, Strip(ln)).ok \/ Strip(ln) = <<>>
    THEN GrokOnSeparator(g)
    ELSE GrokOnText(g, ln)

\* the paragraphs of the documents converted
GrokFirst == {Chars("1. Q?"), Chars("1. **Q?**"),
              Chars("1. Q? Options: (a) 3 (b) 4 (c) 5 (d) 6"), Chars("Quiz")}
GrokOptionsPara == {<< >>, <<Chars("Options: (a) 3 (b) 4 (c) 5 (d) 6")>>,
                    <<Chars("Options: (a) 3 (b) 4")>>}
GrokAnswerPara == {<< >>, <<Chars("Answer: (b)")>>, <<Chars("Answer: (b) 4")>>,
                   <<Chars("**Answer:** (c)")>>, <<Chars("Answer: b")>>}
GrokExplanationPara == {<< >>, <<Chars("Explanation: E")>>, <<Chars("**Explanation:** E")>>}
GrokRest == {<< >>, <<Chars("---")>>, <<Chars("2. R? Options: (a) 1 Answer: (a)")>>}

InitGrok ==
    /\ \E q \in GrokFirst, o \in GrokOptionsPara, a \in GrokAnswerPara,
          e \in GrokExplanationPara, r \in GrokRest :
          grok = [state |-> "lines", lines |-> <<q>> \o o \o a \o e \o r, read |-> 0,
                  current_block |-> <<>>, questions |-> <<>>, dialog |-> "none"]
    /\ paragraphs = <<>>
    /\ cursor = 0
    /\ curr = <<>>
    /\ blocks = <<>>
    /\ block_idx = 0
    /\ questions = <<>>
    /\ pc = "grok"
    /\ last = NoCall
    /\ scenario = NoScenario
    /\ text = <<>>
    /\ normalized = <<>>
    /\ renormalized = <<>>
    /\ line = <<>>
    /\ heading = "unknown"
    /\ debug_log = NoLog
    /\ out_doc = NoDoc
    /\ ui = NoUi
    /\ perpl = NoPerpl
    /\ gemini = NoGemini

\* convert, lines 166-185: one iteration of the loop over the lines
GrokLine ==
    /\ grok.state = "lines"
    /\ grok.read < Len(grok.lines)
    /\ grok' = [GrokOnLine(grok, grok.lines[grok.read + 1]) EXCEPT !.read = grok.read + 1]
    /\ UNCHANGED <<parserVars, debug_log, out_doc, ui, perpl, gemini>>

\* convert, lines 186-189: the last block
GrokLastBlock ==
    /\ grok.state = "lines"
    /\ grok.read = Len(grok.lines)
    /\ grok' = [grok EXCEPT !.state = "grouped", !.current_block = <<>>,
                            !.questions = IF grok.current_block # <<>>
                                          THEN AppendIfQuestion(@, process_block(grok.current_block))
                                          ELSE @]
    /\ UNCHANGED <<parserVars, debug_log, out_doc, ui, perpl, gemini>>

\* convert, lines 190-231: no question is a warning, else the tables are
\* written and saved
GrokWrite ==
    /\ grok.state = "grouped"
    /\ \E save_ok \in BOOLEAN :
          grok' = [grok EXCEPT !.state = "done",
                               !.dialog = IF grok.questions = <<>> THEN "Warning"
                                          ELSE IF save_ok THEN "Success" ELSE "Error"]
    /\ UNCHANGED <<parserVars, debug_log, out_doc, ui, perpl, gemini>>

NextGrok == GrokLine \/ GrokLastBlock \/ GrokWrite

SpecGrok == InitGrok /\ [][NextGrok]_vars

\* ------------------------------------------------------------------------
\* Properties
\* ------------------------------------------------------------------------
Returned == last.called /\ last.trace.result # None
Result == last.trace.result
AllEmpty(options) == \A i \in 1..Len(options) : options[i] = <<>>

\* C1: every Question returned by parse_block, and every Question in the
\* list being built, has exactly 4 options, on every extraction path.
C1_FourOptions ==
    /\ Returned => Len(Result.options) = 4
    /\ \A i \in 1..Len(questions) : Len(questions[i].options) = 4
\* a Question came back from the naive split, two segments padded to four
C1_Witness ==
    /\ Returned
    /\ last.trace.strategy = "options_label"
    /\ ~last.trace.used_pairs
    /\ Result.options = <<Chars("1"), Chars("(2"), <<>>, <<>> >>

\* C2: every Question returned by parse_block has answer in a..d, and the
\* answer is 'a' whenever assumed is true.
C2_AnswerValid ==
    Returned => /\ Result.answer \in {"a", "b", "c", "d"}
                /\ (Result.assumed => Result.answer = "a")
\* an upper-case letter in the answer text came back lower-cased
C2_Witness ==
    /\ Returned
    /\ last.block = <<B_OPTS, B_ANSWER_LETTER>>
    /\ Result.answer = "b"
    /\ ~Result.assumed

WellFormed(q) ==
    /\ Len(q.options) = 4
    /\ q.answer \in {"a", "b", "c", "d"}
    /\ (q.assumed => q.answer = "a")
    /\ ~(q.question = <<>> /\ AllEmpty(q.options))

\* C3: for every paragraph sequence, grouping and then parsing every block
\* runs to its end (each loop is inside its range, so a step is always there
\* to take until the list is returned) and the list holds only well-formed
\* Questions, at most one per block parsed.
C3_Totality ==
    /\ pc \in {"group", "parse", "done"}
    /\ pc = "group" => cursor <= Len(paragraphs)
    /\ pc = "parse" => block_idx <= Len(blocks)
    /\ pc = "done" => block_idx = Len(blocks) /\ cursor = Len(paragraphs)
    /\ Len(questions) <= block_idx
    /\ \A i \in 1..Len(questions) : WellFormed(questions[i])
\* a document of blank and separator paragraphs only returned the empty list
C3_Witness ==
    /\ pc = "done"
    /\ paragraphs = <<P_SEPARATOR, P_BLANK, P_SPACES>>
    /\ questions = <<>>

\* C4: parse_block returns None exactly when the normalized question and all
\* four options are empty, and never returns such a Question.
C4_Discard ==
    (last.called /\ last.trace.reached_end) =>
        /\ (last.trace.parsed.question = <<>> /\ AllEmpty(last.trace.parsed.options))
               => last.trace.result = None
        /\ last.trace.result # None
               => ~(Result.question = <<>> /\ AllEmpty(Result.options))
\* a block holding only an answer line was discarded
C4_Witness ==
    /\ last.called
    /\ last.block = <<B_ANSWER_TEXT>>
    /\ last.trace.reached_end
    /\ last.trace.parsed.question = <<>>
    /\ last.trace.result = None

IsBlankText(para) == \A i \in 1..Len(para) : para[i] \in WhiteSpace
SeparatorCh == {"-", "_", "*", EM_DASH, EN_DASH}
IsSeparatorOnly(para) ==
    LET core == Strip(para) IN
    Len(core) > 0 /\ \A i \in 1..Len(core) : core[i] \in SeparatorCh
IsContent(para) == ~IsBlankText(para) /\ ~IsSeparatorOnly(para)

\* C6: at every point of the scan and at its end no block is empty and no
\* block (closed or open) holds a blank or separator-only paragraph; the
\* document <<"Q1 text", "---", "", "Q2 text">> gives two one-paragraph blocks.
C6_NoEmptyNoBreak ==
    /\ \A i \in 1..Len(blocks) :
         /\ Len(blocks[i]) > 0
         /\ \A j \in 1..Len(blocks[i]) : IsContent(blocks[i][j])
    /\ \A j \in 1..Len(curr) : IsContent(curr[j])
    /\ (pc # "group" /\ paragraphs = <<P_Q1, P_SEPARATOR, P_BLANK, P_Q2>>)
          => blocks = << <<P_Q1>>, <<P_Q2>> >>
\* Scenario 6 grouped
C6_Witness ==
    /\ pc = "parse"
    /\ paragraphs = <<P_Q1, P_SEPARATOR, P_BLANK, P_Q2>>
    /\ blocks = << <<P_Q1>>, <<P_Q2>> >>

RECURSIVE Flatten(_)
Flatten(bs) == IF Len(bs) = 0 THEN <<>> ELSE bs[1] \o Flatten(Tail(bs))
\* the indices of the content paragraphs of the document, in order
ContentIdx == SelectSeq(AsSeq([i \in 1..Len(paragraphs) |-> i]),
                        LAMBDA i : IsContent(paragraphs[i]))
\* the block that holds the n-th content paragraph
BlockOfNth(n) ==
    CHOOSE b \in 1..Len(blocks) :
        /\ Len(Flatten(SubSeq(blocks, 1, b - 1))) < n
        /\ n <= Len(Flatten(SubSeq(blocks, 1, b)))

\* C7: the blocks returned are the maximal runs of consecutive content
\* paragraphs in document order: their concatenation is the document without
\* its blank and separator paragraphs, and two neighbouring content
\* paragraphs share a block iff nothing lies between them.
C7_MaximalRuns ==
    pc # "group" =>
        /\ Flatten(blocks) = [n \in 1..Len(ContentIdx) |-> paragraphs[ContentIdx[n]]]
        /\ \A n \in 1..(Len(ContentIdx) - 1) :
             (BlockOfNth(n) = BlockOfNth(n + 1)) <=> (ContentIdx[n + 1] = ContentIdx[n] + 1)
\* two adjacent paragraphs in one block, a third after a separator in the next
C7_Witness ==
    /\ pc = "parse"
    /\ paragraphs = <<P_Q2, P_Q1, P_SEPARATOR, P_Q2>>
    /\ blocks = << <<P_Q2, P_Q1>>, <<P_Q2>> >>

NonBlankOf(block) == SelectSeq(block, LAMBDA para : ~IsBlankText(para))
\* the length of the maximal leading run of heading paragraphs
LeadingHeadings(ps) ==
    CHOOSE n \in 0..Len(ps) :
        /\ \A i \in 1..n : is_heading_line(ps[i])
        /\ (n < Len(ps) => ~is_heading_line(ps[n + 1]))

\* C8: parse_block extracts from the block's non-blank paragraphs without
\* exactly their maximal leading run of headings (later heading-like
\* paragraphs stay), and a block of headings only yields no Question.
C8_LeadingHeadings ==
    last.called =>
        LET nb == NonBlankOf(last.block)
            n == LeadingHeadings(nb)
        IN /\ last.trace.paras = SubSeq(nb, n + 1, Len(nb))
           /\ (n = Len(nb) => last.trace.result = None)
\* Scenario 5: the block <<"Paper 1", "Unique Questions">> yields nothing
C8_Witness ==
    /\ last.called
    /\ last.block = <<B_PAPER, B_UNIQUE>>
    /\ last.trace.paras = <<>>
    /\ last.trace.result = None
\* a heading-like paragraph after the question is kept
C8_KeptLater ==
    /\ last.called
    /\ last.block = <<B_WHAT, B_PAPER>>
    /\ last.trace.paras = <<B_WHAT, B_PAPER>>
    /\ last.trace.result # None

\* C5: normalize_text is idempotent: normalizing a normalized text changes
\* nothing, also for texts that mix zero-width characters, combining marks,
\* CR/LF and whitespace runs.
C5_Idempotent ==
    pc = "done" => renormalized = normalized

ScenarioLetter ==
    CHOOSE x \in {"a", "b", "c", "d"} : scenario.answer_text = LetterAnswer(x)
IsScenario1 ==
    /\ scenario.used
    /\ scenario.layout = "single"
    /\ scenario.has_explanation
    /\ \E x \in {"a", "b", "c", "d"} : scenario.answer_text = LetterAnswer(x)

\* C9: a single-paragraph block "<question> Options: (a) A (b) B (c) C (d) D
\* Answer: (x) Explanation: <text>" parses to one Question with the text
\* before "Options:" as question, options <<A, B, C, D>>, answer x, assumed
\* false and explanation <text>.
C9_Scenario1 ==
    (last.called /\ IsScenario1) =>
        /\ last.trace.result # None
        /\ Result.question = scenario.question
        /\ Result.options = scenario.options
        /\ Result.answer = ScenarioLetter
        /\ ~Result.assumed
        /\ Result.explanation = scenario.explanation

\* C10: an answer given as option text is resolved by containment: with the
\* options Paris, London, Rome, Berlin and the answer line "Answer: London"
\* parse_block returns answer b with assumed false.
C10_Containment ==
    (last.called /\ scenario.used /\ scenario.options = S_CITIES
       /\ scenario.answer_text = S_LONDON) =>
        /\ last.trace.result # None
        /\ Result.answer = "b"
        /\ ~Result.assumed

\* option i is non-empty and occurs, case-insensitively, in the answer text
OptionIn(q, i) ==
    /\ q.options[i] # <<>>
    /\ Contains(Lower(q.debug.raw_answer_text), Lower(q.options[i]))

\* C11: assumed is true iff the block gave no answer letter and no non-empty
\* option occurs in the answer text, and then the answer is the default a; a
\* block without an answer label yields a with assumed true.
C11_Assumed ==
    Returned =>
        /\ Result.assumed <=>
              (~last.trace.letter_explicit /\ \A i \in 1..4 : ~OptionIn(Result, i))
        /\ (Result.assumed => Result.answer = "a")
        /\ (~last.trace.has_answer => (Result.assumed /\ Result.answer = "a"))
\* an answer line whose text names no letter and no option: the default a
C11_Witness ==
    /\ Returned
    /\ last.block = <<B_WHAT, B_ANSWER_TEXT>>
    /\ last.trace.has_answer
    /\ ~last.trace.letter_explicit
    /\ Result.assumed
    /\ Result.answer = "a"

\* C12: without an answer letter, the answer is the earliest option in
\* a, b, c, d order that is non-empty and occurs in the answer text, and an
\* empty option is never the match.
C12_FirstMatch ==
    (Returned /\ last.trace.has_answer /\ ~last.trace.letter_explicit) =>
        /\ \A i \in 1..4 :
              (OptionIn(Result, i) /\ \A j \in 1..(i - 1) : ~OptionIn(Result, j))
                 => (Result.answer = LABELS[i] /\ ~Result.assumed)
        /\ \A i \in 1..4 :
              (~Result.assumed /\ Result.answer = LABELS[i]) => Result.options[i] # <<>>
\* both options occur in "4 3"; option a wins although 4 comes first in the text
C12_Witness ==
    /\ Returned
    /\ last.block = <<B_OPTS, B_ANSWER_BOTH>>
    /\ ~last.trace.letter_explicit
    /\ OptionIn(Result, 1) /\ OptionIn(Result, 2)
    /\ Result.options[3] = <<>>
    /\ Result.answer = "a"
    /\ ~Result.assumed

\* the label "(x)" of option i occurs in the options text
LabelOccurs(options_text, i) == Contains(options_text, LetterAnswer(LABELS[i]))

\* C13: options are placed by label: options[i] is the text written after
\* label 'abcd'[i], and it is empty exactly when that label does not occur in
\* the options text.
C13_ByLabel ==
    (last.called /\ scenario.used /\ last.trace.reached_end) =>
        \A i \in 1..4 :
            /\ (last.trace.parsed.options[i] = <<>>)
                  <=> ~LabelOccurs(last.trace.options_part, i)
            /\ LabelOccurs(last.trace.options_part, i)
                  => last.trace.parsed.options[i] = scenario.options[i]
\* Scenario 4: with only (a) and (b) recoverable the options are padded and
\* the Question is still returned
C13_Scenario4 ==
    /\ Returned
    /\ last.block = <<B_OPTS>>
    /\ Result.options = <<Chars("3"), Chars("4"), <<>>, <<>> >>
    /\ Result.question = Chars("Q?")

\* "(a) T1 (b) T2 (c) T3 (d) T4"
LabelledOptions(opts) ==
    JoinSpace(<<OptionPart("a", opts[1]), OptionPart("b", opts[2]),
                OptionPart("c", opts[3]), OptionPart("d", opts[4])>>)

\* C14: for the options text "(a) T1 (b) T2 (c) T3 (d) T4" with non-empty
\* bracket-free texts, which may hold the letters a-d inside words, every
\* option is the whole text up to the next label or the end: the options are
\* <<T1, T2, T3, T4>>.
C14_WholeText ==
    (last.called /\ scenario.used
       /\ last.trace.options_part = LabelledOptions(scenario.options)) =>
        last.trace.parsed.options = scenario.options

\* offset of the first explanation label or answer label of the text t, or
\* Len(t) when it has neither
FirstLabelStart(t) ==
    LeastOr({ReSearch(re, t).start : re \in {r \in {EXPLANATION_RE, ANSWER_RE} : ReSearch(r, t).ok}},
            Len(t))
\* the block text located before its first answer or explanation label
BeforeLabels(t) == normalize_text(Slice(t, 0, FirstLabelStart(t)))

\* C15: every extraction step works on the text the earlier steps left: the
\* question and the four options of a returned Question are taken from the
\* block text before its first answer label or explanation label, on every
\* options strategy.
C15_RemainingOnly ==
    Returned =>
        /\ Contains(BeforeLabels(JoinSpace(last.trace.paras)), Result.question)
        /\ \A i \in 1..4 :
              Contains(BeforeLabels(JoinSpace(last.trace.paras)), Result.options[i])

\* the explanation labels and the options labels, lower-cased
ExplanationWords == {Chars("explanation"), Chars("solution"), Chars("explanatory")}
OptionsWords == {Chars("option"), Chars("options")}
\* the word w stands at offset q of t as a whole word, in any letter case
IsWordOccurrence(t, q, w) ==
    /\ q + Len(w) <= Len(t)
    /\ Lower(Slice(t, q, q + Len(w))) = w
    /\ AtWordBoundary(t, q)
    /\ AtWordBoundary(t, q + Len(w))
\* the offsets where a label of the set W stands
LabelStarts(t, W) == {q \in 0..Len(t) : \E w \in W : IsWordOccurrence(t, q, w)}
HasLabel(t, W) == LabelStarts(t, W) # {}
FirstLabel(t, W) == LeastOr(LabelStarts(t, W), Len(t))
\* the offset just after the label that starts at q
LabelEnd(t, q, W) == q + Len(CHOOSE w \in W : IsWordOccurrence(t, q, w))
\* the offset after white space and one optional ':' or '-' that follow offset p
SkipColonDash(t, p) ==
    IF p < Len(t) /\ t[p + 1] \in ColonDash THEN LStripLen(t, p + 1) ELSE p
AfterLabel(t, q, W) == Slice(t, SkipColonDash(t, LStripLen(t, LabelEnd(t, q, W))), Len(t))
\* the text after the first label of W
AfterFirstLabel(t, W) == Strip(AfterLabel(t, FirstLabel(t, W), W))
\* the text before the first label of W, all of it without a label
BeforeFirstLabel(t, W) == Strip(Slice(t, 0, FirstLabel(t, W)))
HasExplanationLabel(t) == HasLabel(t, ExplanationWords)
\* the text after the first explanation label, none without a label
ExplanationOf(t) ==
    IF HasExplanationLabel(t) THEN normalize_text(AfterFirstLabel(t, ExplanationWords))
    ELSE <<>>
BeforeExplanation(t) == BeforeFirstLabel(t, ExplanationWords)
\* the text of the block the extraction starts from (line 128)
BlockText == Strip(JoinSpace(last.trace.paras))

\* The explanation is the normalized text after the first whole-word
\* explanation label and its optional ':' or '-', empty without a label, and
\* the answer step reads the text before that label.
C16_ExplanationText ==
    Returned =>
        /\ last.trace.has_explanation <=> HasExplanationLabel(BlockText)
        /\ Result.explanation = ExplanationOf(BlockText)
        /\ Contains(BeforeExplanation(BlockText), Result.debug.raw_answer_text)
        /\ Contains(BeforeExplanation(BlockText), last.trace.raw)
C16_ExplanationSeen ==
    /\ Returned
    /\ last.block = <<B_ANSWER_LETTER, B_ANSWER_LETTER>>
    /\ Result.explanation = Chars("E. Ans: (B) Explanation: E.")
    /\ Result.debug.raw_answer_text = Chars("(B)")

\* C16: explanation is the normalized text from just after the first
\* case-insensitive whole-word Explanation/Solution/Explanatory label (and its
\* optional ':' or '-') to the end of the block text, and is empty when no
\* such label occurs; the text before that label is all the answer step and
\* the options step see, so the question and the options hold nothing of the
\* text after it.
C16_Explanation ==
    Returned =>
        /\ Result.explanation = ExplanationOf(BlockText)
        /\ Contains(BeforeExplanation(BlockText), Result.debug.raw_answer_text)
        /\ Contains(normalize_text(BeforeExplanation(BlockText)), Result.question)
        /\ \A k \in 1..4 :
              Contains(normalize_text(BeforeExplanation(BlockText)), Result.options[k])

\* a labelled option starts at offset q of t: an optional opening bracket, a
\* letter a-d, an optional closing mark and white space
LetterThenSpace(t, p) ==
    /\ p < Len(t) /\ t[p + 1] \in LetterAD
    /\ IF p + 1 < Len(t) /\ t[p + 2] \in CloseBr
       THEN p + 2 < Len(t) /\ t[p + 3] \in WhiteSpace
       ELSE p + 1 < Len(t) /\ t[p + 2] \in WhiteSpace
LabelledOptionAt(t, q) ==
    IF q < Len(t) /\ t[q + 1] \in OpenBr THEN LetterThenSpace(t, q + 1)
    ELSE LetterThenSpace(t, q)
LabelledOptionStarts(t) == {q \in 0..Len(t) : LabelledOptionAt(t, q)}
FirstLabelledOption(t) == LeastOr(LabelledOptionStarts(t), Len(t))

\* the paragraph p begins with an option label that some text follows
LabelledParagraph(p) ==
    \E q \in {LStripLen(p, 0), LStripLen(p, 0) + 1} :
        /\ q = LStripLen(p, 0) \/ p[q] \in OpenBr
        /\ q < Len(p) /\ p[q + 1] \in LetterAD
        /\ \E r \in (q + 2)..Len(p) : p[r] # "\n"
\* neither an options label nor a labelled option is in the text t
NoSplitPoint(t) == ~HasLabel(t, OptionsWords) /\ LabelledOptionStarts(t) = {}

\* C17 as stated: precedence of the question/options split. With an
\* Option/Options label in the remaining text the question is the text before
\* the first such label and the options text the text after it, and neither
\* the labelled option split nor the per-paragraph scan is applied; the
\* labelled option split is used only without such a label, and the
\* per-paragraph scan only when the labelled option split found a single
\* segment, and in that case the question is the first paragraph alone
\* (compared on blocks without answer and explanation, where the remaining
\* text is the block text).
C17_AsStated ==
    (last.called /\ last.trace.reached_end) =>
        /\ HasLabel(last.trace.raw, OptionsWords) =>
              /\ last.trace.strategy = "options_label"
              /\ last.trace.question_text = BeforeFirstLabel(last.trace.raw, OptionsWords)
              /\ last.trace.options_part = AfterFirstLabel(last.trace.raw, OptionsWords)
        /\ last.trace.strategy = "first_label_split" => ~HasLabel(last.trace.raw, OptionsWords)
        /\ last.trace.strategy \in {"paragraph_scan", "none"} => NoSplitPoint(last.trace.raw)
        /\ (NoSplitPoint(last.trace.raw) /\ ~last.trace.has_answer /\ ~last.trace.has_explanation)
              => last.trace.question_text = Strip(last.trace.paras[1])

\* C17 amended: the precedence is as stated, and in the case of the
\* per-paragraph scan the question is the first paragraph alone when the scan
\* finds a labelled paragraph; when it finds none the question is the whole
\* remaining text and the options text is empty.
C17_Precedence ==
    (last.called /\ last.trace.reached_end) =>
        /\ HasLabel(last.trace.raw, OptionsWords) =>
              /\ last.trace.strategy = "options_label"
              /\ last.trace.question_text = BeforeFirstLabel(last.trace.raw, OptionsWords)
              /\ last.trace.options_part = AfterFirstLabel(last.trace.raw, OptionsWords)
        /\ last.trace.strategy = "first_label_split" =>
              /\ ~HasLabel(last.trace.raw, OptionsWords)
              /\ LabelledOptionStarts(last.trace.raw) # {}
              /\ last.trace.question_text
                    = Strip(Slice(last.trace.raw, 0, FirstLabelledOption(last.trace.raw)))
              /\ last.trace.options_part
                    = Strip(Slice(last.trace.raw, FirstLabelledOption(last.trace.raw),
                                  Len(last.trace.raw)))
        /\ ~HasLabel(last.trace.raw, OptionsWords) /\ LabelledOptionStarts(last.trace.raw) # {}
              => last.trace.strategy = "first_label_split"
        /\ last.trace.strategy \in {"paragraph_scan", "none"} => NoSplitPoint(last.trace.raw)
        /\ last.trace.strategy = "paragraph_scan" =>
              /\ \E k \in 2..Len(last.trace.paras) : LabelledParagraph(last.trace.paras[k])
              /\ last.trace.question_text = Strip(last.trace.paras[1])
        /\ last.trace.strategy = "none" =>
              /\ \A k \in 2..Len(last.trace.paras) : ~LabelledParagraph(last.trace.paras[k])
              /\ last.trace.question_text = last.trace.raw
              /\ last.trace.options_part = <<>>
\* the scan finds no labelled paragraph: the question is the whole remaining text
C17_Witness ==
    /\ Returned
    /\ last.block = <<B_WHAT, B_WHAT>>
    /\ NoSplitPoint(last.trace.raw)
    /\ last.trace.strategy = "none"
    /\ Result.question = Chars("What is x? What is x?")
    /\ AllEmpty(Result.options)
\* an options label wins over labelled options in the text and in a later paragraph
C17_LabelWins ==
    /\ Returned
    /\ last.block = <<B_OPTS, B_OPT_B>>
    /\ LabelledOptionStarts(last.trace.raw) # {}
    /\ last.trace.strategy = "options_label"
    /\ Result.question = Chars("Q?")
    /\ last.trace.options_part = Chars("(a) 3 (b) 4 (b)2")
\* the per-paragraph scan takes the first paragraph as the question
C17_ScanSeen ==
    /\ Returned
    /\ last.block = <<B_WHAT, B_OPT_B>>
    /\ last.trace.strategy = "paragraph_scan"
    /\ Result.question = B_WHAT

\* C18: raw_block of every Question is the untouched concatenation of all
\* paragraphs of its source block: it is the paragraphs joined by spaces, so
\* every paragraph of the block, the answer, the explanation and the heading
\* paragraphs among them, is still in it.
C18_RawBlock ==
    Returned =>
        /\ normalize_text(Result.raw_block) = normalize_text(JoinSpace(last.block))
        /\ \A k \in 1..Len(last.block) :
              Contains(Result.raw_block, normalize_text(last.block[k]))

\* the text t begins with the phrase w, in any letter case
BeginsWith(t, w) == Len(w) <= Len(t) /\ Lower(Slice(t, 0, Len(w))) = w
\* "paper N": the word paper, optional white space and a digit
BeginsWithPaperN(t) ==
    /\ BeginsWith(t, Chars("paper"))
    /\ LStripLen(t, 5) < Len(t)
    /\ t[LStripLen(t, 5) + 1] \in DigitCh
\* the leading phrases of rule 1 without the table-of-contents markers
BeginsWithCatalogPhrase(t) ==
    \/ BeginsWith(t, Chars("unique questions"))
    \/ BeginsWithPaperN(t)
    \/ BeginsWith(t, Chars("selected questions"))
    \/ BeginsWith(t, Chars("questions on"))
\* the table-of-contents markers of rule 1
BeginsWithContentsMarker(t) ==
    BeginsWith(t, Chars("index")) \/ BeginsWith(t, Chars("contents"))

\* C19: is_heading_line is true, in any letter case, for every line that
\* begins with a phrase of the rule-1 catalogue: unique questions, paper N,
\* selected questions, questions on, and the markers index and contents.
C19_Catalog ==
    pc = "done" =>
        ((BeginsWithCatalogPhrase(Strip(line)) \/ BeginsWithContentsMarker(Strip(line)))
            => heading = TRUE)
\* the catalogue phrases other than the two markers are recognised
C19_Phrases ==
    pc = "done" =>
        (BeginsWithCatalogPhrase(Strip(line)) => heading = TRUE)
C19_PhraseSeen ==
    /\ pc = "done"
    /\ line = Chars("\tPAPER 1: Algebra")
    /\ heading = TRUE

IsQuestion(q) == q # None
\* the results of the first n blocks of bs, each parsed alone with its own
\* index, in order and without the discarded ones
KeptResults(bs, n) ==
    SelectSeq(AsSeq([k \in 1..n |-> parse_block(bs[k], k - 1)]), IsQuestion)

\* C20: blocks are parsed strictly in input order and independently: the
\* list is at every step the in-order sequence of the Questions of the blocks
\* parsed so far, each computed from its own block alone, a discarded block
\* adds nothing and stops nothing, and the list returned covers every block.
C20_InOrder ==
    /\ pc = "group" => questions = <<>>
    /\ pc \in {"parse", "done"} => questions = KeptResults(blocks, block_idx)
    /\ pc = "done" => block_idx = Len(blocks)
\* a discarded first block, then a block that becomes the only Question
C20_Witness ==
    /\ pc = "done"
    /\ paragraphs = <<P_ANSWER_ONLY, P_SEPARATOR, P_Q1>>
    /\ Len(blocks) = 2
    /\ parse_block(blocks[1], 0) = None
    /\ Len(questions) = 1
    /\ questions[1] = parse_block(blocks[2], 1)
    /\ questions[1].debug.block_idx = 1

\* C21: the debug log is a side artifact: whether the write of
\* debug_log.jsonl succeeds, fails or is disabled, parse_docx_to_questions
\* raises nothing and returns the list the loop built, the same list in
\* every case.
C21_LogSideArtifact ==
    /\ pc # "done" => debug_log = NoLog
    /\ pc = "done" =>
          /\ ~debug_log.raised
          /\ debug_log.returned = questions
          /\ debug_log.returned = LogWrite(FALSE, TRUE, questions).returned
\* the write fails on the first entry and the Question is returned all the same
C21_Witness ==
    /\ pc = "done"
    /\ debug_log.write_debug_log
    /\ debug_log.caught = "NameError"
    /\ debug_log.file = "opened_not_written"
    /\ Len(debug_log.returned) = 1
    /\ debug_log.returned[1].kind = "Question"
\* the file cannot be opened
C21_OpenFails ==
    /\ pc = "done"
    /\ debug_log.caught = "OSError"
    /\ Len(debug_log.returned) = 2
\* the log is disabled
C21_Disabled ==
    /\ pc = "done"
    /\ ~debug_log.write_debug_log
    /\ Len(debug_log.returned) = 2

\* the number of option rows of a table that carry the mark
RowsMarked(t, mark) == Cardinality({k \in 1..4 : t.option_rows[k].mark = mark})
IsLetterAD(answer) == answer \in {"a", "b", "c", "d", "A", "B", "C", "D"}

\* C22: in every table written, exactly one of the option rows 2-5 is marked
\* correct and the other three incorrect; the correct row is the row of the
\* answer letter (a is row 2, d is row 5), and an answer that is no letter
\* a-d marks row 2.
C22_OneCorrectRow ==
    \A n \in 1..Len(out_doc.tables) :
        /\ Len(out_doc.tables[n].option_rows) = 4
        /\ RowsMarked(out_doc.tables[n], "correct") = 1
        /\ RowsMarked(out_doc.tables[n], "incorrect") = 3
        /\ \A k \in 1..4 :
              out_doc.questions[n].answer = LABELS[k]
                 => /\ out_doc.tables[n].option_rows[k].mark = "correct"
                    /\ out_doc.tables[n].option_rows[k].row = k + 1
        /\ ~IsLetterAD(out_doc.questions[n].answer)
              => out_doc.tables[n].option_rows[1].mark = "correct"
\* a saved document with answer d in row 5 and an answer outside a-d in row 2
C22_Witness ==
    /\ out_doc.state = "saved"
    /\ Len(out_doc.tables) = 2
    /\ out_doc.questions[1].answer = "d"
    /\ out_doc.tables[1].option_rows[4].mark = "correct"
    /\ out_doc.questions[2].answer = "e"
    /\ out_doc.tables[2].option_rows[1].mark = "correct"

\* C23: a parse failure and a write failure are shown as distinct errors
\* (Parse error, Save error); after a parse failure no write is attempted; the
\* success indicator is visible only after a write that succeeded in the most
\* recent convert: every convert hides it at its start and reset hides it.
C23_DistinctErrors ==
    /\ (ui.dialog = "Parse error") <=> (ui.parse = "failed")
    /\ (ui.dialog = "Save error") <=> (ui.write = "failed")
    /\ ui.parse = "failed" => (ui.write = "not_attempted" /\ ~ui.success_visible)
    /\ ui.success_visible => (ui.parse = "ok" /\ ui.write = "ok")
    /\ ui.op = "convert" => (ui.success_visible <=> ui.write = "ok")
    /\ ui.op = "reset" => ~ui.success_visible
\* a convert that failed to parse right after one that succeeded
C23_Witness ==
    /\ ui.op = "convert"
    /\ ui.parse = "failed"
    /\ ui.dialog = "Parse error"
    /\ ui.write = "not_attempted"
    /\ ui.written # <<>>
    /\ ~ui.success_visible
\* a convert that parsed and failed to save
C23_SaveError ==
    /\ ui.op = "convert"
    /\ ui.parse = "ok"
    /\ ui.write = "failed"
    /\ ui.dialog = "Save error"
    /\ ~ui.success_visible

\* C24: the output file is written only if parsing succeeded and either no
\* question is flagged (assumed answer or empty option) or the user answered
\* Yes to the warnings prompt; after the answer No nothing is written and the
\* success indicator stays hidden.
C24_WriteGate ==
    /\ ui.write # "not_attempted" =>
          /\ ui.parse = "ok"
          /\ (\A n \in 1..Len(ui.questions) :
                 /\ ~ui.questions[n].assumed
                 /\ \A k \in 1..4 : ui.questions[n].options[k] # <<>>)
             \/ (ui.prompt /\ ui.reply = "Yes")
    /\ ui.prompt <=> (ui.parse = "ok" /\ \E n \in 1..Len(ui.questions) :
                         \/ ui.questions[n].assumed
                         \/ \E k \in 1..4 : ui.questions[n].options[k] = <<>>)
    /\ ui.reply = "No" => (ui.write = "not_attempted" /\ ~ui.success_visible)
\* the user answers No to the warnings of a padded question
C24_Witness ==
    /\ ui.op = "convert"
    /\ ui.questions = <<CQ_CLEAN, CQ_PADDED>>
    /\ ui.prompt
    /\ ui.reply = "No"
    /\ ui.write = "not_attempted"
    /\ ~ui.success_visible
\* the user answers Yes and the file is written
C24_Confirmed ==
    /\ ui.questions = <<CQ_ASSUMED>>
    /\ ui.reply = "Yes"
    /\ ui.write = "ok"
    /\ ui.written = <<CQ_ASSUMED>>
    /\ ui.success_visible

\* the non-empty normalized pieces the naive split makes of the options text
NaiveSegments(options_text) == NormalizedNonEmpty(ReSplit(INLINE_LABEL_RE, options_text))
\* those of them that follow a label: the piece before the first label left out
SegmentsAfterLabels(options_text) ==
    NormalizedNonEmpty(Tail(ReSplit(INLINE_LABEL_RE, options_text)))

\* C25: in the naive-split fallback (pair extraction found no pair), when the
\* split yields at least four non-empty segments the text before the first
\* label is discarded and the options are the four segments that follow
\* labels; with fewer segments the options are the segments padded with empty
\* strings.
C25_NaiveSplit ==
    (Returned /\ ~last.trace.used_pairs /\ last.trace.options_part # <<>>) =>
        /\ (/\ Len(NaiveSegments(last.trace.options_part)) >= 4
            /\ Len(SegmentsAfterLabels(last.trace.options_part)) >= 4)
              => Result.options = SubSeq(SegmentsAfterLabels(last.trace.options_part), 1, 4)
        /\ Len(NaiveSegments(last.trace.options_part)) < 4
              => Result.options = NaiveSegments(last.trace.options_part)
                                     \o Blanks(4 - Len(NaiveSegments(last.trace.options_part)))
\* fewer than four segments are padded
C25_Padded ==
    /\ Returned
    /\ last.block = <<B_NAIVE>>
    /\ ~last.trace.used_pairs
    /\ Result.options = <<Chars("1"), Chars("(2"), <<>>, <<>> >>

\* the places of the answer text that hold one of A-D or a-d
LettersIn(answer_text) == {k \in 1..Len(answer_text) : answer_text[k] \in LetterAD}
FirstLetterIn(answer_text) == LowerCh(answer_text[LeastOr(LettersIn(answer_text), 1)])

\* C26: whenever the captured answer text holds a character of A-D/a-d,
\* anywhere and even inside a word, the answer is the first such character
\* lower-cased with assumed false, whatever the options contain; containment
\* against the options decides only when the answer text holds none of them.
C26_LetterFirst ==
    (Returned /\ last.trace.has_answer) =>
        /\ LettersIn(Result.debug.raw_answer_text) # {} =>
              /\ last.trace.letter_explicit
              /\ Result.answer = FirstLetterIn(Result.debug.raw_answer_text)
              /\ ~Result.assumed
        /\ LettersIn(Result.debug.raw_answer_text) = {} =>
              /\ ~last.trace.letter_explicit
              /\ \A k \in 1..4 : (Result.answer = LABELS[k] /\ ~Result.assumed)
                                    => OptionIn(Result, k)
\* the answer text London: option b lies in it, and the answer is the d of London
C26_Witness ==
    /\ Returned
    /\ scenario.used
    /\ scenario.options = S_CITIES
    /\ Result.debug.raw_answer_text = S_LONDON
    /\ OptionIn(Result, 2)
    /\ Result.answer = "d"
    /\ ~Result.assumed
\* the answer text 4 holds no letter: containment decides
C26_NoLetter ==
    /\ Returned
    /\ scenario.used
    /\ scenario.options = S_DIGITS
    /\ Result.debug.raw_answer_text = S_FOUR
    /\ Result.answer = "b"
    /\ ~Result.assumed

\* C27: every question parse_docx_questions builds has exactly four options
\* and a correct index in 0..3, so create_question_table marks exactly one of
\* the four option rows correct, for any number of labelled option lines and
\* any answer text.
C27_FourAndOneCorrect ==
    /\ perpl.state \in {"built", "table"} =>
          /\ Len(perpl.options) = 4
          /\ perpl.correct \in 0..3
    /\ perpl.state = "table" =>
          Cardinality({k \in 1..4 : perpl.marks[k] = "correct"}) = 1
\* four option lines and a letter answer: four options, one correct row
C27_FourLines ==
    /\ perpl.state = "table"
    /\ perpl.lines = <<Chars("Q?"), Chars("Options:")>> \o OptionLines(4) \o <<Chars("Ans: (d)")>>
    /\ perpl.options = <<Chars("1"), Chars("2"), Chars("3"), Chars("4")>>
    /\ perpl.correct = 3
    /\ perpl.marks = <<"incorrect", "incorrect", "incorrect", "correct">>
\* five option lines and the answer text of the fifth: no row is marked
C27_NoRowCorrect ==
    /\ perpl.state = "table"
    /\ perpl.lines = <<Chars("Q?"), Chars("Options:")>> \o OptionLines(5) \o <<Chars("Answer: 5")>>
    /\ Len(perpl.options) = 5
    /\ perpl.correct = 4
    /\ \A k \in 1..4 : perpl.marks[k] = "incorrect"

\* the run of the parser thread has ended
ParserEnded == gemini.thread \in {"finished", "error", "returned"}
\* block n was processed and its answer was no usable object
BlockFailed(n) ==
    gemini.blocks[n] \in {"no_options", "empty_json", "bad_json", "api_error"}
\* C28 (as stated): every run of GeminiParser.run that is not cancelled emits
\* parsing_finished exactly once and never parsing_error.
C28_AsStated ==
    (ParserEnded /\ gemini.is_running) => gemini.emitted = <<"parsing_finished">>
\* C28 (amended): a block whose parsing fails adds a warning for that block
\* and no question, every later block is still processed in order, and a run
\* whose setup succeeded and that is not cancelled emits parsing_finished
\* exactly once with the questions of all blocks that parsed and never
\* parsing_error; parsing_error is emitted only by a failed setup, alone and
\* before any block.
C28_BlockFailureContinues ==
    gemini.thread # "none" =>
        /\ \A n \in 1..gemini.i :
              /\ BlockFailed(n) =>
                    /\ \E k \in 1..Len(gemini.warnings) : gemini.warnings[k].block = n
                    /\ \A k \in 1..Len(gemini.questions) : gemini.questions[k].block # n
              /\ gemini.blocks[n] \in ParsedKinds =>
                    \E k \in 1..Len(gemini.questions) : gemini.questions[k].block = n
        /\ \A k \in 1..Len(gemini.questions) :
              /\ gemini.questions[k].block \in 1..gemini.i
              /\ gemini.blocks[gemini.questions[k].block] \in ParsedKinds
              /\ \A j \in 1..(k - 1) : gemini.questions[j].block < gemini.questions[k].block
        /\ gemini.thread = "finished" =>
              /\ gemini.i = Len(gemini.blocks)
              /\ gemini.emitted = <<"parsing_finished">>
        /\ gemini.thread = "error" =>
              /\ gemini.i = 0
              /\ gemini.emitted = <<"parsing_error">>
        /\ gemini.thread = "returned" => (~gemini.is_running /\ gemini.emitted = <<>>)
        /\ gemini.thread \in {"setup", "loop"} => gemini.emitted = <<>>
\* a run whose first block fails with an API error still parses the second
\* block and finishes with its question
C28_Witness ==
    /\ gemini.thread = "finished"
    /\ gemini.is_running
    /\ gemini.blocks = <<"api_error", "ok">>
    /\ gemini.warnings = <<[block |-> 1, text |-> "parsing error"]>>
    /\ gemini.questions = <<[block |-> 2, options |-> 4]>>
    /\ gemini.emitted = <<"parsing_finished">>

\* C29: when parsing finishes and the export proceeds, the output is written
\* to the path convert selected: the Save-as path if one was chosen, otherwise
\* the default path in the directory of the input file.
C29_WrittenToSelected ==
    gemini.written_to # "nothing" =>
        /\ gemini.written_to = gemini.out_path
        /\ gemini.out_path \in {"chosen/out.docx", "parent/stem_Formatted",
                                "parent/typed", "parent/stem_Formatted.docx"}
\* with a Save-as path the export is written there
C29_SaveAsPath ==
    /\ gemini.out_path = "chosen/out.docx"
    /\ gemini.written_to = "chosen/out.docx"
    /\ gemini.dialog = "saved"
\* without a Save-as path the export is given no path and fails
C29_DefaultPathUnused ==
    /\ gemini.out_path = "parent/stem_Formatted"
    /\ gemini.written_to = "None"
    /\ gemini.dialog = "Save error"
    /\ ~gemini.success_visible

\* a numbered question followed by an Options, an Answer and an Explanation
\* paragraph
IsFourParagraphQuestion(ls) ==
    /\ Len(ls) >= 4
    /\ ls[1] \in {Chars("1. Q?"), Chars("1. **Q?**")}
    /\ ls[2] = Chars("Options: (a) 3 (b) 4 (c) 5 (d) 6")
    /\ ls[3] \in {Chars("Answer: (b)"), Chars("Answer: (b) 4"), Chars("**Answer:** (c)")}
    /\ ls[4] \in {Chars("Explanation: E"), Chars("**Explanation:** E")}
\* C30: for a numbered question whose Options, Answer and Explanation arrive
\* as paragraphs accumulated by convert into one block, process_block returns
\* the explanation as the text after the answer line, the label removed, and
\* four options that hold only their own option text.
C30_ExplanationAndOptions ==
    IsFourParagraphQuestion(grok.lines) =>
        \A k \in 1..Len(grok.questions) :
            grok.questions[k].question = Chars("Q?") =>
                /\ grok.questions[k].options = <<Chars("3"), Chars("4"), Chars("5"), Chars("6")>>
                /\ grok.questions[k].explanation = Chars("E")
\* the question, options, answer and explanation paragraphs give one
\* question whose options b and d hold the explanation and the answer label
C30_Contaminated ==
    /\ grok.state = "done"
    /\ grok.lines = <<Chars("1. Q?"), Chars("Options: (a) 3 (b) 4 (c) 5 (d) 6"),
                      Chars("Answer: (b)"), Chars("Explanation: E")>>
    /\ grok.questions = <<[kind |-> "question", question |-> Chars("Q?"),
                           options |-> <<Chars("3"), Chars("Explanation: E"), Chars("5"),
                                         Chars("6 Answer:")>>,
                           ans_letter |-> "b", explanation |-> <<>>]>>

====
